---------------------------- MODULE Spec2Model ----------------------------
(***************************************************************************)
(* CODESYNC: the real-time synchronisation core of a collaborative code    *)
(* editor.  The repository holds three programs over the same protocol:    *)
(*                                                                         *)
(*   - codesync/yjs_server.py, the standalone y-websocket server;          *)
(*   - fastapi_backend/app/routers/websocket.py (/yjs/{doc_id}) with       *)
(*     app/services/yjs_manager.py, the registry with idle eviction;       *)
(*   - fastapi_backend/app/routers/websocket.py (/editor/{document_id}),   *)
(*     the JSON editor socket with the debounced analysis.                 *)
(*                                                                         *)
(* Every coroutine is cut at its awaits: one action is the code that runs  *)
(* between two suspension points of one handler.  A send hands the frame   *)
(* to the transport at once and may suspend afterwards; a send to a closed *)
(* transport raises, and may have waited for the closing handshake before  *)
(* it does; a Python set or dict that changed size raises RuntimeError at  *)
(* the iterator's next step.                                               *)
(***************************************************************************)
EXTENDS Naturals, Integers, Sequences, FiniteSets, TLC

VARIABLES
    entry,          \* the program that is running: "log", "standalone", "yjs", "editor"
    harness,        \* a YjsDocument driven directly (apply_update / gc_updates calls)
    \* one handler coroutine per websocket
    pc,             \* where the websocket's handler is suspended
    sent,           \* the frames the transport of each websocket accepted, in order
    alive,          \* the transport is open: a send to it succeeds
    iter,           \* the handler's running (or last) for-loop over clients / awareness
    removal,        \* the for-loop of broadcast_awareness_removal in the handler's finally
    client_id,      \* the handler's local client_id
    docref,         \* the handler's local document
    issued,         \* history: the identities handed out, in connection order
    found,          \* history: what the handler found in the document on connect
    budget,         \* what the clients will still do: frames to send, transports to close
    inbox,          \* history: the frames the handler received from its client, in order
    origin,         \* history: for each frame of sent, what the frame is (see NoOrigin)
    \* YjsServer (standalone)
    documents,      \* self.documents: doc_id -> YjsDocument
    client_docs,    \* self.client_docs: websocket -> doc_id
    client_ids,     \* self.client_ids: websocket -> client id
    next_client_id, \* self.next_client_id
    redis,          \* self.redis: None, or the client of a broker that answered the ping
    broker,         \* the broker: the events published, each with the processes it reached
    \* ConnectionManager and YjsDocumentManager (/yjs/{doc_id})
    active_connections, \* manager.active_connections: doc_id -> set object
    mgr_documents,  \* YjsDocumentManager._documents: doc_id -> YjsDocument object
    heap,           \* the YjsDocument objects of the manager, by reference
    docobj,         \* the handler's local doc: a reference into heap
    next_ref,       \* the next object reference (set objects and documents)
    tasks,          \* the pending _cleanup_empty_document tasks, in creation order
    now,            \* the clock: seconds for /yjs, milliseconds for /editor
    fired,          \* history: what the last _cleanup_empty_document task did
    \* the /editor/{document_id} endpoint
    editor_connections, \* editor_connections: document_id -> set object
    last_content,   \* the handler's local last_content
    debounce_tasks, \* _debounce_tasks: task_key -> task
    ed_tasks,       \* the debounced_analysis tasks ever created
    invocations,    \* history: the calls of AIService.analyze_code
    db_content,     \* the documents table: document_id -> content of its row
    superseded      \* history: the tasks whose edit was followed within the delay

conn_vars == <<pc, sent, alive, iter, removal, client_id, docref, issued, found, budget,
               inbox, origin>>
sa_vars == <<documents, client_docs, client_ids, next_client_id, redis, broker>>
yjs_vars == <<active_connections, mgr_documents, heap, docobj, next_ref, tasks, now, fired>>
ed_vars == <<editor_connections, last_content, debounce_tasks, ed_tasks, invocations,
             db_content, superseded>>
vars == <<entry, harness, conn_vars, sa_vars, yjs_vars, ed_vars>>

(***************************************************************************)
(* Bounds of the model.                                                    *)
(***************************************************************************)
MaxCalls == 4       \* calls made on the directly driven YjsDocument
MaxKeep == 2        \* largest keep_last handed to gc_updates in the harness
SA_MaxFrames == 1   \* inbound frames the standalone server receives in one run
SA_MaxCloses == 2   \* transports that close in one run of the standalone server

(***************************************************************************)
(* Protocol constants.                                                     *)
(***************************************************************************)
MESSAGE_SYNC == 0
MESSAGE_AWARENESS == 1
MESSAGE_AUTH == 2
MESSAGE_QUERY_AWARENESS == 3
SYNC_STEP1 == 0
SYNC_STEP2 == 1
SYNC_UPDATE == 2
GC_CEILING == 200       \* yjs_server.py: get_update_count() > 200
GC_KEEP_LAST == 100     \* gc_updates(keep_last=100)

None == "None"
DocIds == { "d1" }

(* The websockets, named in the order in which their handlers start. *)
Order == << "c1", "c2", "c3" >>
Conns == { Order[i] : i \in 1..Len(Order) }
Earlier(x, y) == \E i, j \in 1..Len(Order) : i < j /\ Order[i] = x /\ Order[j] = y

(***************************************************************************)
(* Bytes.  b''.join(list): the blobs one after the other.                  *)
(***************************************************************************)
RECURSIVE Join(_)
Join(blobs) ==
    IF blobs = <<>> THEN <<>>
    ELSE IF Len(blobs) = 1 THEN blobs[1]
    ELSE LET half == Len(blobs) \div 2
         IN  Join(SubSeq(blobs, 1, half)) \o Join(SubSeq(blobs, half + 1, Len(blobs)))

(***************************************************************************)
(* YjsDocument: the update log.  The class is defined twice in the         *)
(* repository with the same four methods.                                  *)
(***************************************************************************)
apply_update(updates, update) == Append(updates, update)

get_encoded_state(updates) ==
    IF updates = <<>> THEN <<>> ELSE Join(updates)

get_update_count(updates) == Len(updates)

gc_updates_keep_tail(updates, keep_last) ==
    IF Len(updates) > keep_last
    THEN SubSeq(updates, Len(updates) - keep_last + 1, Len(updates))
    ELSE updates

gc_updates_merge_at_threshold(updates, keep_last) ==
    IF Len(updates) >= keep_last
    THEN << Join(updates) >>
    ELSE updates

gc_updates(updates, keep_last) ==
    IF Len(updates) > keep_last
    THEN << Join(updates) >>
    ELSE updates

(***************************************************************************)
(* The harness: any sequence of apply_update and gc_updates calls on one   *)
(* YjsDocument.  appended is the history variable of the bytes handed to    *)
(* apply_update; op and pre record the last call and the log before it.    *)
(***************************************************************************)
Blobs == { <<>>, <<1>>, <<2>>, <<1, 2>> }

NoHarness ==
    [updates |-> <<>>, appended |-> <<>>, calls |-> 0,
     op |-> "new", k |-> 0, pre |-> <<>>]

(* What a frame handed to a transport is: kind "update" is the frame of a   *)
(* broadcast_update pass of handler src for the blob at position n of the  *)
(* update log; "step2" is a SYNC/STEP2 carrying the first n blobs of the    *)
(* log; "reply" is the answer to the n-th frame of the receiver's inbox.    *)
NoOrigin == [kind |-> "other", src |-> None, n |-> 0]

NoIter ==
    [kind |-> "none", tag |-> NoOrigin, inbound |-> <<>>, message |-> <<>>, set |-> 0, n0 |-> 0,
     base |-> {}, seen |-> {}, got |-> {}, disconnected |-> {}, keys |-> {},
     status |-> "idle", published |-> "no"]

NothingLeft == [updates |-> <<>>, awareness_states |-> <<>>]

NotFound == [connected |-> FALSE, existing |-> FALSE, vacated |-> FALSE,
             updates |-> <<>>, awareness_states |-> <<>>, left |-> NothingLeft,
             ref |-> 0, prior |-> 0]

IdleConns ==
    /\ pc = [c \in Conns |-> "unused"]
    /\ sent = [c \in Conns |-> <<>>]
    /\ inbox = [c \in Conns |-> <<>>]
    /\ origin = [c \in Conns |-> <<>>]
    /\ alive = [c \in Conns |-> TRUE]
    /\ iter = [c \in Conns |-> NoIter]
    /\ removal = [c \in Conns |-> NoIter]
    /\ client_id = [c \in Conns |-> 0]
    /\ docref = [c \in Conns |-> None]
    /\ issued = <<>>
    /\ found = [c \in Conns |-> NotFound]
    /\ budget = [frames |-> 0, closes |-> 0]

IdleStandalone ==
    /\ documents = << >>
    /\ client_docs = << >>
    /\ client_ids = << >>
    /\ next_client_id = 1
    /\ redis = None
    /\ broker = << >>

NoFire == [doc_id |-> None, members |-> 0, deleted |-> FALSE, idle |-> 0]

IdleManager ==
    /\ active_connections = << >>
    /\ mgr_documents = << >>
    /\ heap = << >>
    /\ docobj = [c \in Conns |-> 0]
    /\ next_ref = 1
    /\ tasks = << >>
    /\ now = 0
    /\ fired = NoFire

IdleEditor ==
    /\ editor_connections = << >>
    /\ last_content = [c \in Conns |-> ""]
    /\ debounce_tasks = << >>
    /\ ed_tasks = << >>
    /\ invocations = << >>
    /\ db_content = [d \in DocIds |-> ""]
    /\ superseded = {}

InitLog ==
    /\ entry = "log"
    /\ harness = NoHarness
    /\ IdleConns
    /\ IdleStandalone
    /\ IdleManager
    /\ IdleEditor

LogApplyUpdate(blob) ==
    /\ entry = "log"
    /\ harness.calls < MaxCalls
    /\ harness' = [updates |-> apply_update(harness.updates, blob),
                   appended |-> harness.appended \o blob,
                   calls |-> harness.calls + 1,
                   op |-> "apply_update", k |-> 0, pre |-> harness.updates]
    /\ UNCHANGED <<entry, conn_vars, sa_vars, yjs_vars, ed_vars>>

LogGcUpdates(keep_last) ==
    /\ entry = "log"
    /\ harness.calls < MaxCalls
    /\ harness' = [updates |-> gc_updates(harness.updates, keep_last),
                   appended |-> harness.appended,
                   calls |-> harness.calls + 1,
                   op |-> "gc_updates", k |-> keep_last, pre |-> harness.updates]
    /\ UNCHANGED <<entry, conn_vars, sa_vars, yjs_vars, ed_vars>>

NextLog ==
    \/ \E blob \in Blobs : LogApplyUpdate(blob)
    \/ \E keep_last \in 0..MaxKeep : LogGcUpdates(keep_last)

SpecLog == InitLog /\ [][NextLog]_vars

(***************************************************************************)
(* C2: after any sequence of apply_update and gc_updates(k) calls,         *)
(* get_encoded_state() is the concatenation, in insertion order, of every  *)
(* blob handed to apply_update; the empty log yields the empty bytes.      *)
(***************************************************************************)
C2_EncodedStateIsConcatenation ==
    entry = "log" =>
        /\ get_encoded_state(harness.updates) = harness.appended
        /\ harness.updates = <<>> => get_encoded_state(harness.updates) = <<>>

C2_Witness ==
    /\ entry = "log"
    /\ harness.op = "apply_update"
    /\ Len(harness.pre) = 1
    /\ Len(Head(harness.pre)) >= 3
    /\ Len(harness.appended) > Len(Head(harness.pre))
    /\ get_encoded_state(harness.updates) = harness.appended

(***************************************************************************)
(* C3: gc_updates(k) never changes the encoded state; with more than k     *)
(* blobs the log becomes the single blob of the full concatenation, with   *)
(* at most k it is left as it was; a second gc_updates(k) changes nothing. *)
(***************************************************************************)
C3_GcKeepsStateAndIsIdempotent ==
    (entry = "log" /\ harness.op = "gc_updates") =>
        /\ get_encoded_state(harness.updates) = get_encoded_state(harness.pre)
        /\ Len(harness.pre) > harness.k =>
               harness.updates = << get_encoded_state(harness.pre) >>
        /\ Len(harness.pre) <= harness.k => harness.updates = harness.pre
        /\ gc_updates(harness.updates, harness.k) = harness.updates

C3_Witness ==
    /\ entry = "log"
    /\ harness.op = "gc_updates"
    /\ Len(harness.pre) >= 2
    /\ Len(harness.pre) > harness.k
    /\ harness.updates = << harness.appended >>
    /\ Len(harness.appended) >= 2

(***************************************************************************)
(* Python containers.  A dict keeps insertion order: a sequence of         *)
(* key/value entries.  A dict from websockets is a function on a subset    *)
(* of Conns.                                                               *)
(***************************************************************************)
DictHas(d, k) == \E i \in 1..Len(d) : d[i].key = k

DictSet(d, k, v) ==
    IF DictHas(d, k)
    THEN [i \in 1..Len(d) |-> IF d[i].key = k THEN [key |-> k, val |-> v] ELSE d[i]]
    ELSE Append(d, [key |-> k, val |-> v])

DictDel(d, k) == SelectSeq(d, LAMBDA e : e.key # k)

DictGet(d, k) == (CHOOSE i \in 1..Len(d) : d[i].key = k)

Put(f, k, v) == (k :> v) @@ f

Pop(f, k) == [x \in DOMAIN f \ {k} |-> f[x]]

GetOr(f, k, default) == IF k \in DOMAIN f THEN f[k] ELSE default

(* struct.pack('<I', n): four bytes, least significant first *)
Pack32(n) ==
    << n % 256, (n \div 256) % 256, (n \div 65536) % 256, (n \div 16777216) % 256 >>

NewDocument == [updates |-> <<>>, awareness_states |-> <<>>, clients |-> {}]

(***************************************************************************)
(* The frames a client sends.                                              *)
(***************************************************************************)
UpdateFrame(p) == <<MESSAGE_SYNC, SYNC_UPDATE>> \o p
Step2Frame(p) == <<MESSAGE_SYNC, SYNC_STEP2>> \o p
Step1Frame == <<MESSAGE_SYNC, SYNC_STEP1>>
AwarenessFrame(id, p) == <<MESSAGE_AWARENESS>> \o Pack32(id) \o p

InboundFrames ==
    { UpdateFrame(<<7>>), UpdateFrame(<<8>>), UpdateFrame(<<>>),
      <<MESSAGE_AWARENESS, 5>>, Step1Frame, Step2Frame(<<9>>),
      <<MESSAGE_QUERY_AWARENESS>>, << >>, <<MESSAGE_SYNC>>, <<4>> }

(***************************************************************************)
(* The standalone server, codesync/yjs_server.py.  The operators below     *)
(* take the state as one record W and give the state after the code ran    *)
(* up to its next await; pick is the member the set iterator yields next   *)
(* (None: the iterator is exhausted), W.ok says the pick was possible.     *)
(***************************************************************************)
World ==
    [pc |-> pc, sent |-> sent, alive |-> alive, iter |-> iter, removal |-> removal,
     client_id |-> client_id, docref |-> docref, issued |-> issued,
     found |-> found, inbox |-> inbox, origin |-> origin, documents |-> documents,
     client_docs |-> client_docs, client_ids |-> client_ids,
     next_client_id |-> next_client_id, redis |-> redis, broker |-> broker,
     active_connections |-> active_connections, mgr_documents |-> mgr_documents,
     heap |-> heap, docobj |-> docobj, next_ref |-> next_ref, tasks |-> tasks,
     now |-> now, fired |-> fired, editor_connections |-> editor_connections,
     last_content |-> last_content, debounce_tasks |-> debounce_tasks,
     ed_tasks |-> ed_tasks, invocations |-> invocations,
     db_content |-> db_content, superseded |-> superseded, ok |-> TRUE]

Commit(W) ==
    /\ W.ok
    /\ active_connections' = W.active_connections
    /\ mgr_documents' = W.mgr_documents
    /\ heap' = W.heap
    /\ docobj' = W.docobj
    /\ next_ref' = W.next_ref
    /\ tasks' = W.tasks
    /\ now' = W.now
    /\ fired' = W.fired
    /\ editor_connections' = W.editor_connections
    /\ last_content' = W.last_content
    /\ debounce_tasks' = W.debounce_tasks
    /\ ed_tasks' = W.ed_tasks
    /\ invocations' = W.invocations
    /\ db_content' = W.db_content
    /\ superseded' = W.superseded
    /\ pc' = W.pc
    /\ sent' = W.sent
    /\ alive' = W.alive
    /\ iter' = W.iter
    /\ removal' = W.removal
    /\ client_id' = W.client_id
    /\ docref' = W.docref
    /\ issued' = W.issued
    /\ found' = W.found
    /\ inbox' = W.inbox
    /\ origin' = W.origin
    /\ documents' = W.documents
    /\ client_docs' = W.client_docs
    /\ client_ids' = W.client_ids
    /\ next_client_id' = W.next_client_id
    /\ redis' = W.redis
    /\ broker' = W.broker

(* a transport that puts the newest frame in front of those waiting *)
SendAs_front(W, to, frame, o) ==
    [W EXCEPT !.sent[to] = <<frame>> \o @, !.origin[to] = <<o>> \o @]

SendAs(W, to, frame, o) ==
    [W EXCEPT !.sent[to] = Append(@, frame), !.origin[to] = Append(@, o)]

Send(W, to, frame) == SendAs(W, to, frame, NoOrigin)

get_document(W, doc_id) ==
    IF doc_id \notin DOMAIN W.documents
    THEN [W EXCEPT !.documents = Put(@, doc_id, NewDocument)]
    ELSE W

(* handle_client, line 196: the last statement of the finally block *)
SA_HandlerEnd(W, c) ==
    [W EXCEPT !.client_ids = Pop(@, c), !.pc[c] = "ended"]

(* `await client.send(message)` inside try/except: pass *)
SA_Visit(it, W, t) ==
    [it EXCEPT !.seen = @ \cup {t},
               !.got = IF W.alive[t] THEN @ \cup {t} ELSE @]

SA_DeliverAs(W, t, message, o) ==
    IF W.alive[t] THEN SendAs(W, t, message, o) ELSE W

SA_Deliver(W, t, message) == SA_DeliverAs(W, t, message, NoOrigin)

(* broadcast_awareness_removal: the for-loop up to its next send *)
SA_RemovalLoop(W, c, pick) ==
    LET S == W.documents[W.docref[c]].clients
        it == W.removal[c]
        cand == S \ it.seen
    IN  IF Cardinality(S) # it.n0
        THEN \* RuntimeError: Set changed size during iteration; it leaves the
             \* finally block, line 196 is not reached
             [W EXCEPT !.removal[c].status = "aborted", !.pc[c] = "ended"]
        ELSE IF pick \in cand
        THEN [SA_Deliver(W, pick, it.message) EXCEPT
                 !.removal[c] = SA_Visit(it, W, pick), !.pc[c] = "removal"]
        ELSE IF pick = None /\ cand \cap it.base = {}
        THEN SA_HandlerEnd([W EXCEPT !.removal[c].status = "done"], c)
        ELSE [W EXCEPT !.ok = FALSE]

(* handle_client: except ... finally, lines 182-197 *)
SA_Finally(W, c, pick) ==
    LET d == W.docref[c]
        id == W.client_id[c]
        W1 == [W EXCEPT !.documents[d].clients = @ \ {c},
                        !.client_docs = Pop(@, c)]
    IN  IF DictHas(W1.documents[d].awareness_states, id)
        THEN LET W2 == [W1 EXCEPT !.documents[d].awareness_states = DictDel(@, id)]
                 S == W2.documents[d].clients
                 W3 == [W2 EXCEPT !.removal[c] =
                           [NoIter EXCEPT !.kind = "removal",
                                          !.message = AwarenessFrame(id, <<0>>),
                                          !.n0 = Cardinality(S), !.base = S,
                                          !.status = "running"]]
             IN  SA_RemovalLoop(W3, c, pick)
        ELSE SA_HandlerEnd(W1, c)

(* The other server processes on the same broker, and those of them that  *)
(* are subscribed to a channel.  A broker hands an event to the processes  *)
(* subscribed when it is published.  RedisManager.subscribe and listen are *)
(* called from nowhere, and yjs_server.py only ever publishes: no process  *)
(* is subscribed to any channel.                                           *)
OtherProcesses == { "P2" }

Subscribers(channel) == { }

(* handle_sync_message, lines 259-261, and the return to `async for` *)
SA_GcAndReturn(W, c) ==
    LET d == W.docref[c]
        W1 == [W EXCEPT !.pc[c] = "loop"]
    IN  IF W.iter[c].kind = "update"
        THEN [W1 EXCEPT !.documents[d].updates =
                 IF get_update_count(@) > GC_CEILING
                 THEN gc_updates(@, GC_KEEP_LAST) ELSE @]
        ELSE W1

(* broadcast_update, lines 305-310: after the for-loop the update is       *)
(* published if self.redis is set; broadcast_awareness publishes nothing   *)
SA_AfterBroadcast(W, c) ==
    LET W1 == [W EXCEPT !.iter[c].status = "done"]
    IN  IF W.iter[c].kind = "update" /\ W.redis # None
        THEN [W1 EXCEPT !.pc[c] = "publish"]
        ELSE SA_GcAndReturn(W1, c)

(* `await self.redis.publish(...)` returns, or raises: the call is in no   *)
(* try block, so the exception leaves broadcast_update, handle_sync_message *)
(* and handle_binary_message and reaches `except Exception` in handle_client *)
SA_AfterPublish(W, c, outcome, pick) ==
    LET W1 == [W EXCEPT !.iter[c].published = outcome]
        channel == <<"yjs", W.docref[c], "update">>
    IN  IF outcome = "ok"
        THEN SA_GcAndReturn(
                 [W1 EXCEPT !.broker =
                     Append(@, [channel |-> channel,
                                data |-> Tail(Tail(W.iter[c].message)),
                                receivers |-> Subscribers(channel)])], c)
        ELSE SA_Finally(W1, c, pick)

(* broadcast_update / broadcast_awareness: the for-loop up to its next send *)
SA_BroadcastLoop(W, c, pick) ==
    LET S == W.documents[W.docref[c]].clients
        it == W.iter[c]
        cand == (S \ it.seen) \ {c}
    IN  IF Cardinality(S) # it.n0
        THEN \* RuntimeError: Set changed size during iteration
             SA_Finally([W EXCEPT !.iter[c].status = "aborted"], c, pick)
        ELSE IF pick \in cand
        THEN [SA_DeliverAs(W, pick, it.message, it.tag) EXCEPT
                 !.iter[c] = SA_Visit(it, W, pick), !.pc[c] = "broadcast"]
        ELSE IF pick = None /\ cand \cap it.base = {}
        THEN SA_AfterBroadcast(W, c)
        ELSE [W EXCEPT !.ok = FALSE]

SA_BroadcastBegin(W, c, kind, inbound, message, pick) ==
    LET S == W.documents[W.docref[c]].clients
    IN  SA_BroadcastLoop(
            [W EXCEPT !.iter[c] =
                [NoIter EXCEPT !.kind = kind, !.inbound = inbound,
                               !.tag = [kind |-> kind, src |-> c,
                                        n |-> IF kind = "update"
                                              THEN Len(W.documents[W.docref[c]].updates)
                                              ELSE 0],
                               !.message = message, !.n0 = Cardinality(S),
                               !.base = S, !.status = "running"]], c, pick)

(* send_awareness_states: the for-loop over the dict up to its next send *)
SA_StatesLoop(W, c, pick) ==
    LET d == W.documents[W.docref[c]].awareness_states
        it == W.iter[c]
        rest == SelectSeq(d, LAMBDA e : e.key \notin it.keys)
    IN  IF Len(d) # it.n0
        THEN \* RuntimeError: dictionary changed size during iteration
             SA_Finally([W EXCEPT !.iter[c].status = "aborted"], c, pick)
        ELSE IF rest = <<>>
        THEN [W EXCEPT !.iter[c].status = "done", !.pc[c] = "loop"]
        ELSE IF ~W.alive[c]
        THEN SA_Finally([W EXCEPT !.iter[c].status = "aborted"], c, pick)
        ELSE [Send(W, c, AwarenessFrame(Head(rest).key, Head(rest).val)) EXCEPT
                 !.iter[c].keys = @ \cup {Head(rest).key}, !.pc[c] = "states"]

send_awareness_states(W, c, pick) ==
    LET d == W.documents[W.docref[c]].awareness_states
    IN  SA_StatesLoop(
            [W EXCEPT !.iter[c] =
                [NoIter EXCEPT !.kind = "states", !.n0 = Len(d),
                               !.status = "running"]], c, pick)

(* send_sync_step2 called by handle_client: the handshake goes on with       *)
(* send_awareness_states                                                   *)
send_sync_step2(W, c, pick) ==
    LET state == get_encoded_state(W.documents[W.docref[c]].updates)
    IN  IF state # <<>>
        THEN IF W.alive[c]
             THEN [SendAs(W, c, Step2Frame(state),
                          [kind |-> "step2", src |-> c,
                           n |-> Len(W.documents[W.docref[c]].updates)])
                      EXCEPT !.pc[c] = "step2"]
             ELSE SA_Finally(W, c, pick)
        ELSE send_awareness_states(W, c, pick)

(* send_sync_step2 called for an inbound STEP1.  Nothing follows the send  *)
(* but the next receive, so the handler waiting in the send and the        *)
(* handler waiting for a frame are one state, "loop".                      *)
reply_sync_step2(W, c, pick) ==
    LET state == get_encoded_state(W.documents[W.docref[c]].updates)
    IN  IF state # <<>>
        THEN IF W.alive[c]
             THEN SendAs(W, c, Step2Frame(state),
                         [kind |-> "reply", src |-> c, n |-> Len(W.inbox[c])])
             ELSE SA_Finally(W, c, pick)
        ELSE W

handle_sync_message(W, c, data, payload, pick) ==
    LET d == W.docref[c]
        sync_type == payload[1]
        sync_data == Tail(payload)
    IN  IF Len(payload) < 1 THEN W
        ELSE IF sync_type = SYNC_STEP1
        THEN reply_sync_step2(W, c, pick)
        ELSE IF sync_type = SYNC_STEP2
        THEN IF sync_data # <<>>
             THEN [W EXCEPT !.documents[d].updates = apply_update(@, sync_data)]
             ELSE W
        ELSE IF sync_type = SYNC_UPDATE
        THEN IF sync_data # <<>>
             THEN SA_BroadcastBegin(
                      [W EXCEPT !.documents[d].updates = apply_update(@, sync_data)],
                      c, "update", data, <<MESSAGE_SYNC, SYNC_UPDATE>> \o sync_data, pick)
             ELSE W
        ELSE W

(* a handler that does not look its identity up and stores under 0 *)
handle_awareness_message_fallback(W, c, data, payload, pick) ==
    LET d == W.docref[c]
        id == 0
    IN  SA_BroadcastBegin(
            [W EXCEPT !.documents[d].awareness_states = DictSet(@, id, payload)],
            c, "awareness", data, <<MESSAGE_AWARENESS>> \o Pack32(id) \o payload, pick)

handle_awareness_message(W, c, data, payload, pick) ==
    LET d == W.docref[c]
        id == GetOr(W.client_ids, c, 0)
    IN  SA_BroadcastBegin(
            [W EXCEPT !.documents[d].awareness_states = DictSet(@, id, payload)],
            c, "awareness", data, <<MESSAGE_AWARENESS>> \o Pack32(id) \o payload, pick)

(* a dispatcher that ends the connection on a frame without a known type *)
handle_binary_message_rejecting(W, c, data, pick) ==
    IF Len(data) < 1 THEN SA_Finally(W, c, pick)
    ELSE IF data[1] = MESSAGE_SYNC
    THEN handle_sync_message(W, c, data, Tail(data), pick)
    ELSE IF data[1] = MESSAGE_AWARENESS
    THEN handle_awareness_message(W, c, data, Tail(data), pick)
    ELSE IF data[1] = MESSAGE_QUERY_AWARENESS
    THEN send_awareness_states(W, c, pick)
    ELSE SA_Finally(W, c, pick)

handle_binary_message(W, c, data, pick) ==
    IF Len(data) < 1 THEN W
    ELSE IF data[1] = MESSAGE_SYNC
    THEN handle_sync_message(W, c, data, Tail(data), pick)
    ELSE IF data[1] = MESSAGE_AWARENESS
    THEN handle_awareness_message(W, c, data, Tail(data), pick)
    ELSE IF data[1] = MESSAGE_QUERY_AWARENESS
    THEN send_awareness_states(W, c, pick)
    ELSE W

Picks == Conns \cup {None}

(* handle_client up to the await of send_sync_step1 *)
SA_Connect(c, doc_id) ==
    /\ entry = "standalone"
    /\ pc[c] = "new"
    /\ \A x \in Conns : Earlier(x, c) => pc[x] # "new"
    /\ LET W1 == get_document(World, doc_id)
           id == W1.next_client_id
           W2 == [W1 EXCEPT !.next_client_id = @ + 1,
                            !.client_ids = Put(@, c, id),
                            !.client_docs = Put(@, c, doc_id),
                            !.documents[doc_id].clients = @ \cup {c},
                            !.client_id[c] = id,
                            !.docref[c] = doc_id,
                            !.issued = Append(@, id),
                            !.found[c] =
                                [connected |-> TRUE,
                                 existing |-> doc_id \in DOMAIN documents,
                                 vacated |-> /\ doc_id \in DOMAIN documents
                                             /\ W1.documents[doc_id].clients = {},
                                 updates |-> W1.documents[doc_id].updates,
                                 awareness_states |->
                                     W1.documents[doc_id].awareness_states,
                                 left |-> NothingLeft, ref |-> 0, prior |-> 0]]
       IN  \E pick \in Picks :
             Commit(IF W2.alive[c]
                       THEN [Send(W2, c, Step1Frame) EXCEPT !.pc[c] = "step1"]
                       ELSE SA_Finally(W2, c, pick))
    /\ UNCHANGED <<entry, harness, budget>>

SA_AfterStep1(c) ==
    /\ entry = "standalone"
    /\ pc[c] = "step1"
    /\ \E pick \in Picks : Commit(send_sync_step2(World, c, pick))
    /\ UNCHANGED <<entry, harness, budget>>

SA_AfterStep2(c) ==
    /\ entry = "standalone"
    /\ pc[c] = "step2"
    /\ \E pick \in Picks : Commit(send_awareness_states(World, c, pick))
    /\ UNCHANGED <<entry, harness, budget>>

SA_StatesNext(c) ==
    /\ entry = "standalone"
    /\ pc[c] = "states"
    /\ \E pick \in Picks : Commit(SA_StatesLoop(World, c, pick))
    /\ UNCHANGED <<entry, harness, budget>>

SA_Receive(c, data) ==
    /\ entry = "standalone"
    /\ pc[c] = "loop"
    /\ alive[c]
    /\ budget.frames > 0
    /\ budget' = [budget EXCEPT !.frames = @ - 1]
    /\ \E pick \in Picks : Commit(handle_binary_message(
                               [World EXCEPT !.inbox[c] = Append(@, data)], c, data, pick))
    /\ UNCHANGED <<entry, harness>>

SA_BroadcastNext(c) ==
    /\ entry = "standalone"
    /\ pc[c] = "broadcast"
    /\ \E pick \in Picks : Commit(SA_BroadcastLoop(World, c, pick))
    /\ UNCHANGED <<entry, harness, budget>>

SA_ReceiveClosed(c) ==
    /\ entry = "standalone"
    /\ pc[c] = "loop"
    /\ ~alive[c]
    /\ \E pick \in Picks : Commit(SA_Finally(World, c, pick))
    /\ UNCHANGED <<entry, harness, budget>>

SA_RemovalNext(c) ==
    /\ entry = "standalone"
    /\ pc[c] = "removal"
    /\ \E pick \in Picks : Commit(SA_RemovalLoop(World, c, pick))
    /\ UNCHANGED <<entry, harness, budget>>

(* the broker answers the publish, or the publish fails *)
SA_PublishReturns(c, outcome) ==
    /\ entry = "standalone"
    /\ pc[c] = "publish"
    /\ \E pick \in Picks : Commit(SA_AfterPublish(World, c, outcome, pick))
    /\ UNCHANGED <<entry, harness, budget>>

(* the peer closes, or the connection breaks *)
Close(c) ==
    /\ pc[c] \notin {"unused", "new", "ended"}
    /\ alive[c]
    /\ budget.closes > 0
    /\ alive' = [alive EXCEPT ![c] = FALSE]
    /\ budget' = [budget EXCEPT !.closes = @ - 1]
    /\ UNCHANGED <<entry, harness, pc, sent, iter, removal, client_id, docref,
                   issued, found, inbox, origin, sa_vars, yjs_vars, ed_vars>>

InitSA ==
    /\ entry = "standalone"
    /\ harness = NoHarness
    /\ pc = [c \in Conns |-> "new"]
    /\ sent = [c \in Conns |-> <<>>]
    /\ inbox = [c \in Conns |-> <<>>]
    /\ origin = [c \in Conns |-> <<>>]
    /\ alive = [c \in Conns |-> TRUE]
    /\ iter = [c \in Conns |-> NoIter]
    /\ removal = [c \in Conns |-> NoIter]
    /\ client_id = [c \in Conns |-> 0]
    /\ docref = [c \in Conns |-> None]
    /\ issued = <<>>
    /\ found = [c \in Conns |-> NotFound]
    /\ budget = [frames |-> SA_MaxFrames, closes |-> SA_MaxCloses]
    /\ IdleStandalone
    /\ IdleManager
    /\ IdleEditor

NextSA ==
    \/ \E c \in Conns, doc_id \in DocIds : SA_Connect(c, doc_id)
    \/ \E c \in Conns : SA_AfterStep1(c)
    \/ \E c \in Conns : SA_AfterStep2(c)
    \/ \E c \in Conns : SA_StatesNext(c)
    \/ \E c \in Conns, data \in InboundFrames : SA_Receive(c, data)
    \/ \E c \in Conns : SA_BroadcastNext(c)
    \/ \E c \in Conns : SA_ReceiveClosed(c)
    \/ \E c \in Conns : SA_RemovalNext(c)
    \/ \E c \in Conns : Close(c)

SpecSA == InitSA /\ [][NextSA]_vars


(***************************************************************************)
(* What a finished pass over a member set owes: a member that was in the   *)
(* set when the pass began, is still attached and has a working transport  *)
(* has been sent the message.                                              *)
(***************************************************************************)
SA_Attached(b) ==
    /\ alive[b]
    /\ docref[b] \in DOMAIN documents
    /\ b \in documents[docref[b]].clients

PassOver(it) == it.status \in {"done", "aborted"}

(***************************************************************************)
(* C1: a SYNC/UPDATE with non-empty payload p received from A is sent to   *)
(* every other connection B attached to the document as [SYNC, UPDATE] + p *)
(* and never to A itself, whatever the other connections do meanwhile.     *)
(***************************************************************************)
C1_UpdateReachesEveryPeer ==
    \A a \in Conns :
        (entry = "standalone" /\ iter[a].kind = "update" /\ PassOver(iter[a])) =>
            /\ iter[a].message = iter[a].inbound
            /\ a \notin iter[a].seen
            /\ \A b \in iter[a].base \ {a} : SA_Attached(b) => b \in iter[a].got

(***************************************************************************)
(* C4: when a connection with an entry in the awareness table is removed,  *)
(* the entry is deleted and every member still attached is sent the        *)
(* AWARENESS frame with the removed identity and a single zero byte.       *)
(***************************************************************************)
C4_RemovalReachesEveryMember ==
    \A l \in Conns :
        (entry = "standalone" /\ removal[l].kind = "removal" /\ PassOver(removal[l])) =>
            /\ removal[l].message = AwarenessFrame(client_id[l], <<0>>)
            /\ ~DictHas(documents[docref[l]].awareness_states, client_id[l])
            /\ \A b \in removal[l].base : SA_Attached(b) => b \in removal[l].got

(***************************************************************************)
(* C10: in a broadcast in which the send to one member failed, every other *)
(* member whose transport accepts the send is sent the message.            *)
(***************************************************************************)
C10_FailedSendDoesNotAbort ==
    \A a \in Conns :
        (/\ entry = "standalone"
         /\ iter[a].kind \in {"update", "awareness"}
         /\ PassOver(iter[a])
         /\ iter[a].seen \ iter[a].got # {}) =>
            \A b \in iter[a].base \ {a} : SA_Attached(b) => b \in iter[a].got

(***************************************************************************)
(* The /yjs/{doc_id} endpoint, fastapi_backend/app/routers/websocket.py,   *)
(* with ConnectionManager and services/yjs_manager.py.  RedisManager is    *)
(* not connected: its publish returns at once.                             *)
(***************************************************************************)
Y_MaxFrames == 1    \* inbound frames the endpoint receives in one run
Y_MaxCloses == 2    \* transports that close in one run of the endpoint
MaxTime == 300      \* the clock stops once it has reached this many seconds
TickSeconds == 100  \* the step of the clock

CLEANUP_DELAY == 300
Y_GC_CEILING == 1000
DEFAULT_KEEP_LAST == 100

Y_NewDocument ==
    [updates |-> <<>>, awareness_states |-> <<>>, clients |-> {},
     \* history: when, and in what state, the member set last became empty
     empty_since |-> 0, left |-> NothingLeft]

(* id(websocket): the address of a websocket object no other live object   *)
(* has.  Addresses are numbered in the order of their first use.           *)
Live(W, x) ==
    \/ W.pc[x] \notin {"unused", "new", "ended"}
    \/ \E a \in Conns : W.iter[a].status = "running" /\ x \in W.iter[a].disconnected

Addresses(W) ==
    LET used == { W.issued[i] : i \in 1..Len(W.issued) }
        held == { W.client_id[x] : x \in { y \in Conns : Live(W, y) } }
    IN  (used \ held) \cup { Cardinality(used) + 1 }

(* a get_document that makes a new YjsDocument at every call *)
ManagerGetDocument_always_new(W, doc_id) ==
    [W EXCEPT !.mgr_documents = Put(@, doc_id, W.next_ref),
              !.heap = Put(@, W.next_ref, Y_NewDocument),
              !.next_ref = @ + 1]

(* YjsDocumentManager.get_document *)
ManagerGetDocument(W, doc_id) ==
    IF doc_id \notin DOMAIN W.mgr_documents
    THEN [W EXCEPT !.mgr_documents = Put(@, doc_id, W.next_ref),
                   !.heap = Put(@, W.next_ref, Y_NewDocument),
                   !.next_ref = @ + 1]
    ELSE W

(* YjsDocumentManager.add_client *)
add_client(W, doc_id, cid) ==
    LET W1 == ManagerGetDocument(W, doc_id)
    IN  [W1 EXCEPT !.heap[W1.mgr_documents[doc_id]].clients = @ \cup {cid}]

(* YjsDocumentManager.remove_client *)
remove_client(W, doc_id, cid) ==
    IF doc_id \in DOMAIN W.mgr_documents
    THEN LET ref == W.mgr_documents[doc_id]
             doc == W.heap[ref]
             rest == doc.clients \ {cid}
             W1 == [W EXCEPT !.heap[ref].clients = rest]
         IN  IF rest = {}
             THEN [W1 EXCEPT
                      !.tasks = Append(@, [doc_id |-> doc_id,
                                           due |-> W.now + CLEANUP_DELAY]),
                      !.heap[ref].empty_since =
                          IF doc.clients # {} THEN W.now ELSE @,
                      !.heap[ref].left =
                          IF doc.clients # {}
                          THEN [updates |-> doc.updates,
                                awareness_states |-> doc.awareness_states]
                          ELSE @]
             ELSE W1
    ELSE W

(* a cleanup that deletes the document without looking at its members *)
cleanup_document_unchecked(W, doc_id) ==
    IF doc_id \in DOMAIN W.mgr_documents
    THEN LET doc == W.heap[W.mgr_documents[doc_id]]
         IN  [W EXCEPT !.mgr_documents = Pop(@, doc_id),
                       !.fired = [doc_id |-> doc_id,
                                  members |-> Cardinality(doc.clients),
                                  deleted |-> TRUE,
                                  idle |-> W.now - doc.empty_since]]
    ELSE [W EXCEPT !.fired = [NoFire EXCEPT !.doc_id = doc_id]]

(* YjsDocumentManager._cleanup_empty_document, after the sleep *)
cleanup_empty_document(W, doc_id) ==
    IF doc_id \in DOMAIN W.mgr_documents
    THEN LET doc == W.heap[W.mgr_documents[doc_id]]
         IN  IF Cardinality(doc.clients) = 0
             THEN [W EXCEPT !.mgr_documents = Pop(@, doc_id),
                            !.fired = [doc_id |-> doc_id, members |-> 0,
                                       deleted |-> TRUE,
                                       idle |-> W.now - doc.empty_since]]
             ELSE [W EXCEPT !.fired = [doc_id |-> doc_id,
                                       members |-> Cardinality(doc.clients),
                                       deleted |-> FALSE, idle |-> 0]]
    ELSE [W EXCEPT !.fired = [NoFire EXCEPT !.doc_id = doc_id]]

(* ConnectionManager.connect after the accept *)
ManagerConnect(W, c, doc_id) ==
    LET W1 == IF doc_id \notin DOMAIN W.active_connections
              THEN [W EXCEPT !.active_connections =
                                Put(@, doc_id, [id |-> W.next_ref, members |-> {}]),
                             !.next_ref = @ + 1]
              ELSE W
    IN  [W1 EXCEPT !.active_connections[doc_id].members = @ \cup {c}]

(* a disconnect that drops the whole connection set of the document *)
ManagerDisconnect_all(W, gone, doc_id) ==
    IF gone # {} /\ doc_id \in DOMAIN W.active_connections
    THEN [W EXCEPT !.active_connections = Pop(@, doc_id)]
    ELSE W

(* ConnectionManager.disconnect, for each websocket of gone *)
ManagerDisconnect(W, gone, doc_id) ==
    IF gone # {} /\ doc_id \in DOMAIN W.active_connections
    THEN LET rest == W.active_connections[doc_id].members \ gone
         IN  IF rest = {}
             THEN [W EXCEPT !.active_connections = Pop(@, doc_id)]
             ELSE [W EXCEPT !.active_connections[doc_id].members = rest]
    ELSE W

(* yjs_websocket: except ... finally, lines 120-126 *)
Y_Finally(W, c) ==
    LET W1 == ManagerDisconnect(W, {c}, W.docref[c])
        W2 == remove_client(W1, W.docref[c], W.client_id[c])
    IN  [W2 EXCEPT !.pc[c] = "ended"]

(* handle_sync_message lines 162-168, handle_awareness_message 179-181 *)
Y_AfterBroadcast(W, c) ==
    LET W1 == [W EXCEPT !.iter[c].status = "done", !.pc[c] = "loop"]
    IN  IF W.iter[c].kind = "update"
        THEN [W1 EXCEPT !.heap[W.docobj[c]].updates =
                 IF get_update_count(@) > Y_GC_CEILING
                 THEN gc_updates(@, DEFAULT_KEEP_LAST) ELSE @]
        ELSE W1

(* the set object the iterator walks: one taken out of the dict is empty *)
Y_IterSet(W, c) ==
    LET d == W.docref[c]
    IN  IF d \in DOMAIN W.active_connections
           /\ W.active_connections[d].id = W.iter[c].set
        THEN W.active_connections[d].members
        ELSE {}

(* ConnectionManager.broadcast: the for-loop up to its next send *)
Y_BroadcastLoop(W, c, pick) ==
    LET S == Y_IterSet(W, c)
        it == W.iter[c]
        cand == (S \ it.seen) \ {c}
    IN  IF Cardinality(S) # it.n0
        THEN \* RuntimeError: Set changed size during iteration
             Y_Finally([W EXCEPT !.iter[c].status = "aborted"], c)
        ELSE IF pick \in cand
        THEN [SA_DeliverAs(W, pick, it.message, it.tag) EXCEPT
                 !.iter[c] = [SA_Visit(it, W, pick) EXCEPT
                                 !.disconnected =
                                     IF W.alive[pick] THEN @ ELSE @ \cup {pick}],
                 !.pc[c] = "broadcast"]
        ELSE IF pick = None /\ cand \cap it.base = {}
        THEN Y_AfterBroadcast(ManagerDisconnect(W, it.disconnected, W.docref[c]), c)
        ELSE [W EXCEPT !.ok = FALSE]

Y_BroadcastBegin(W, c, kind, inbound, message, pick) ==
    LET d == W.docref[c]
        W0 == [W EXCEPT !.iter[c] =
                  [NoIter EXCEPT !.kind = kind, !.inbound = inbound,
                                 !.tag = [kind |-> kind, src |-> c,
                                          n |-> IF kind = "update"
                                                THEN Len(W.heap[W.docobj[c]].updates)
                                                ELSE 0],
                                 !.message = message, !.status = "running"]]
    IN  IF d \notin DOMAIN W.active_connections
        THEN Y_AfterBroadcast(W0, c)
        ELSE Y_BroadcastLoop(
                 [W0 EXCEPT !.iter[c].set = W.active_connections[d].id,
                            !.iter[c].n0 = Cardinality(W.active_connections[d].members),
                            !.iter[c].base = W.active_connections[d].members],
                 c, pick)

(* websocket.send_bytes outside a broadcast: a closed transport raises *)
Y_Reply(W, c, frame) ==
    IF W.alive[c]
    THEN SendAs(W, c, frame, [kind |-> "reply", src |-> c, n |-> Len(W.inbox[c])])
    ELSE Y_Finally(W, c)

Y_handle_sync_message(W, c, inbound, data, pick) ==
    LET sync_type == data[1]
        payload == Tail(data)
        state == get_encoded_state(W.heap[W.docobj[c]].updates)
    IN  IF Len(data) = 0 THEN W
        ELSE IF sync_type = SYNC_STEP1
        THEN IF state # <<>> THEN Y_Reply(W, c, Step2Frame(state)) ELSE W
        ELSE IF sync_type = SYNC_STEP2
        THEN W
        ELSE IF sync_type = SYNC_UPDATE
        THEN Y_BroadcastBegin(
                 [W EXCEPT !.heap[W.docobj[c]].updates = apply_update(@, payload)],
                 c, "update", inbound, <<MESSAGE_SYNC, SYNC_UPDATE>> \o payload, pick)
        ELSE W

Y_handle_awareness_message(W, c, inbound, data, pick) ==
    Y_BroadcastBegin(W, c, "awareness", inbound, <<MESSAGE_AWARENESS>> \o data, pick)

(* The frames a client of /yjs sends: one frame for each branch of the     *)
(* handler.                                                                *)
Y_InboundFrames ==
    { UpdateFrame(<<7>>), UpdateFrame(<<>>), <<MESSAGE_AWARENESS, 5>>,
      Step1Frame, Step2Frame(<<9>>), << >> }

(* yjs_websocket, the body of `while True`, lines 102-118 *)
Y_HandleFrame(W, c, data, pick) ==
    IF Len(data) = 0 THEN W
    ELSE IF data[1] = MESSAGE_SYNC
    THEN Y_handle_sync_message(W, c, data, Tail(data), pick)
    ELSE IF data[1] = MESSAGE_AWARENESS
    THEN Y_handle_awareness_message(W, c, data, Tail(data), pick)
    ELSE W

(* yjs_websocket from the accept to the first receive, lines 79-102.  The  *)
(* send of the initial state is followed by nothing but the receive.       *)
Y_Connect(c, doc_id) ==
    /\ entry = "yjs"
    /\ pc[c] = "new"
    /\ \A x \in Conns : Earlier(x, c) => pc[x] # "new"
    /\ \E addr \in Addresses(World) :
         LET W1 == ManagerConnect(World, c, doc_id)
             W2 == ManagerGetDocument(W1, doc_id)
             ref == W2.mgr_documents[doc_id]
             W3 == add_client([W2 EXCEPT !.docobj[c] = ref,
                                         !.docref[c] = doc_id,
                                         !.client_id[c] = addr,
                                         !.issued = Append(@, addr),
                                         !.pc[c] = "loop"],
                              doc_id, addr)
             doc == W2.heap[ref]
             state_vector == get_encoded_state(doc.updates)
             W4 == [W3 EXCEPT !.found[c] =
                       [connected |-> TRUE,
                        existing |-> doc_id \in DOMAIN mgr_documents,
                        vacated |-> /\ doc_id \in DOMAIN mgr_documents
                                    /\ doc.clients = {},
                        updates |-> doc.updates,
                        awareness_states |-> doc.awareness_states,
                        left |-> doc.left,
                        ref |-> ref,
                        prior |-> IF doc_id \in DOMAIN mgr_documents
                                  THEN mgr_documents[doc_id] ELSE 0]]
         IN  Commit(IF state_vector # <<>> /\ W4.alive[c]
                    THEN SendAs(W4, c, Step2Frame(state_vector),
                                [kind |-> "step2", src |-> c, n |-> Len(doc.updates)])
                    ELSE W4)
    /\ UNCHANGED <<entry, harness, budget>>

Y_Receive(c, data) ==
    /\ entry = "yjs"
    /\ pc[c] = "loop"
    /\ alive[c]
    /\ budget.frames > 0
    /\ budget' = [budget EXCEPT !.frames = @ - 1]
    /\ \E pick \in Picks : Commit(Y_HandleFrame(
                               [World EXCEPT !.inbox[c] = Append(@, data)], c, data, pick))
    /\ UNCHANGED <<entry, harness>>

Y_BroadcastNext(c) ==
    /\ entry = "yjs"
    /\ pc[c] = "broadcast"
    /\ \E pick \in Picks : Commit(Y_BroadcastLoop(World, c, pick))
    /\ UNCHANGED <<entry, harness, budget>>

(* receive_bytes raises WebSocketDisconnect *)
Y_ReceiveClosed(c) ==
    /\ entry = "yjs"
    /\ pc[c] = "loop"
    /\ ~alive[c]
    /\ Commit(Y_Finally(World, c))
    /\ UNCHANGED <<entry, harness, budget>>

(* the sleep of the oldest _cleanup_empty_document task is over *)
Y_CleanupFire ==
    /\ entry = "yjs"
    /\ tasks # <<>>
    /\ Head(tasks).due <= now
    /\ Commit(cleanup_empty_document([World EXCEPT !.tasks = Tail(@)],
                                     Head(tasks).doc_id))
    /\ UNCHANGED <<entry, harness, budget>>

(* time passes while a task sleeps *)
Tick ==
    /\ entry = "yjs"
    /\ tasks # <<>>
    /\ Head(tasks).due > now
    /\ now < MaxTime
    /\ now' = now + TickSeconds
    /\ UNCHANGED <<entry, harness, conn_vars, sa_vars, active_connections,
                   mgr_documents, heap, docobj, next_ref, tasks, fired, ed_vars>>

InitYjs ==
    /\ entry = "yjs"
    /\ harness = NoHarness
    /\ pc = [c \in Conns |-> "new"]
    /\ sent = [c \in Conns |-> <<>>]
    /\ inbox = [c \in Conns |-> <<>>]
    /\ origin = [c \in Conns |-> <<>>]
    /\ alive = [c \in Conns |-> TRUE]
    /\ iter = [c \in Conns |-> NoIter]
    /\ removal = [c \in Conns |-> NoIter]
    /\ client_id = [c \in Conns |-> 0]
    /\ docref = [c \in Conns |-> None]
    /\ issued = <<>>
    /\ found = [c \in Conns |-> NotFound]
    /\ budget = [frames |-> Y_MaxFrames, closes |-> Y_MaxCloses]
    /\ IdleStandalone
    /\ IdleManager
    /\ IdleEditor

NextYjs ==
    \/ \E c \in Conns, doc_id \in DocIds : Y_Connect(c, doc_id)
    \/ \E c \in Conns, data \in Y_InboundFrames : Y_Receive(c, data)
    \/ \E c \in Conns : Y_BroadcastNext(c)
    \/ \E c \in Conns : Y_ReceiveClosed(c)
    \/ \E c \in Conns : Close(c)
    \/ Y_CleanupFire
    \/ Tick

SpecYjs == InitYjs /\ [][NextYjs]_vars

(***************************************************************************)
(* C5: a document is removed from the registry only after its member set   *)
(* has been empty for a full grace window: no cleanup task deletes it less *)
(* than CLEANUP_DELAY seconds after the member set last became empty.      *)
(***************************************************************************)
C5_DeletedOnlyAfterFullGraceWindow ==
    (entry = "yjs" /\ fired.deleted) => fired.idle >= CLEANUP_DELAY

(***************************************************************************)
(* C6: a cleanup task that fires while the member set is non-empty does    *)
(* nothing; a document with a member is in the registry, and it is the     *)
(* document its members hold; a registered document with no member is in   *)
(* the state its last member left, and a member that joins it while it has *)
(* no member finds the updates and the awareness that were left.           *)
(***************************************************************************)
Registered(ref) == \E d \in DOMAIN mgr_documents : mgr_documents[d] = ref

C8_HandshakeStartsWithStep1 ==
    \A c \in Conns :
        (entry = "yjs" /\ found[c].connected) =>
            /\ Len(sent[c]) >= 1
            /\ sent[c][1] = Step1Frame
            /\ get_encoded_state(found[c].updates) # <<>> =>
                   /\ Len(sent[c]) >= 2
                   /\ sent[c][2] = Step2Frame(get_encoded_state(found[c].updates))
            /\ get_encoded_state(found[c].updates) = <<>> =>
                   \A i \in 1..Len(sent[c]) :
                       ~(Len(sent[c][i]) >= 2 /\ sent[c][i][1] = MESSAGE_SYNC
                                              /\ sent[c][i][2] = SYNC_STEP2)

(***************************************************************************)
(* C9: the identities handed out are strictly increasing in connection     *)
(* order, so no two connections ever have the same identity.               *)
(***************************************************************************)
C9_IdentitiesUniqueAndIncreasing ==
    entry = "yjs" =>
        \A i, j \in 1..Len(issued) : i < j => issued[i] < issued[j]

(***************************************************************************)
(* The /editor/{document_id} endpoint, routers/websocket.py lines 208-413. *)
(* The messages are the parsed JSON objects; the content of an edit is     *)
(* never empty.  id(websocket) is the websocket itself: it is unique among *)
(* the live websockets, and a handler deletes its key before it ends.      *)
(***************************************************************************)
E_MaxFrames == 2    \* inbound messages the endpoint receives in one run
E_MaxCloses == 1    \* transports that close in one run of the endpoint
E_MaxTime == 500    \* the clock stops once it has reached this many milliseconds
E_TickMillis == 250 \* the step of the clock

DEBOUNCE_DELAY == 500

E_Conns == { "c1", "c2" }
TaskIds == 1..E_MaxFrames

EditMessage(content) == [type |-> "edit", content |-> content]
EditorInbound == { EditMessage("a"), EditMessage("b"), [type |-> "ping", content |-> ""] }

(* an on-demand request carries the content to analyse *)
AnalysisRequest(content) == [type |-> "request_ai_analysis", content |-> content]

(* run_ai_analysis_for_ws lines 376-391: a content that is empty is        *)
(* replaced by the content of the document's row; without a row there is   *)
(* nothing to analyse                                                      *)
HasCode(W, c, content) == content # "" \/ W.docref[c] \in DOMAIN W.db_content

CodeToAnalyse(W, c, content) ==
    IF content # "" THEN content ELSE W.db_content[W.docref[c]]

(* task.cancel(): CancelledError is raised at the await the task waits in; *)
(* debounced_analysis catches it and returns                               *)
Cancel(W, c) ==
    IF c \in DOMAIN W.debounce_tasks
    THEN LET t == W.debounce_tasks[c]
         IN  IF W.ed_tasks[t].state \in {"sleeping", "status", "analyzing"}
             THEN [W EXCEPT !.ed_tasks[t].state = "cancelled"]
             ELSE W
    ELSE W

(* a cleanup that forgets the timer entry without cancelling the timer *)
E_Finally_without_cancel(W, c) ==
    LET d == W.docref[c]
        W1 == IF d \in DOMAIN W.editor_connections
              THEN LET rest == W.editor_connections[d].members \ {c}
                   IN  IF rest = {}
                       THEN [W EXCEPT !.editor_connections = Pop(@, d)]
                       ELSE [W EXCEPT !.editor_connections[d].members = rest]
              ELSE W
    IN  [W1 EXCEPT !.debounce_tasks = Pop(@, c), !.pc[c] = "ended"]

(* editor_websocket: except ... finally, lines 305-318 *)
E_Finally(W, c) ==
    LET d == W.docref[c]
        W1 == IF d \in DOMAIN W.editor_connections
              THEN LET rest == W.editor_connections[d].members \ {c}
                   IN  IF rest = {}
                       THEN [W EXCEPT !.editor_connections = Pop(@, d)]
                       ELSE [W EXCEPT !.editor_connections[d].members = rest]
              ELSE W
        W2 == Cancel(W1, c)
    IN  [W2 EXCEPT !.debounce_tasks = Pop(@, c), !.pc[c] = "ended"]

(* handle_editor_edit lines 351-370, then line 283 and the next receive *)
E_Schedule(W, c) ==
    LET W1 == Cancel(W, c)
        t == Len(W1.ed_tasks) + 1
    IN  [W1 EXCEPT !.ed_tasks = Append(@, [conn |-> c,
                                           content |-> W.iter[c].inbound.content,
                                           due |-> W.now + DEBOUNCE_DELAY,
                                           state |-> "sleeping"]),
                   !.debounce_tasks = Put(@, c, t),
                   !.last_content[c] = W.iter[c].inbound.content,
                   !.iter[c].status = "done",
                   !.pc[c] = "loop"]

E_IterSet(W, c) ==
    LET d == W.docref[c]
    IN  IF d \in DOMAIN W.editor_connections
           /\ W.editor_connections[d].id = W.iter[c].set
        THEN W.editor_connections[d].members
        ELSE {}

(* editor_broadcast: the for-loop up to its next send, and lines 225-226 *)
E_BroadcastLoop(W, c, pick) ==
    LET d == W.docref[c]
        S == E_IterSet(W, c)
        it == W.iter[c]
        cand == (S \ it.seen) \ {c}
    IN  IF Cardinality(S) # it.n0
        THEN \* RuntimeError: Set changed size during iteration
             E_Finally([W EXCEPT !.iter[c].status = "aborted"], c)
        ELSE IF pick \in cand
        THEN [SA_DeliverAs(W, pick, it.message, it.tag) EXCEPT
                 !.iter[c] = [SA_Visit(it, W, pick) EXCEPT
                                 !.disconnected =
                                     IF W.alive[pick] THEN @ ELSE @ \cup {pick}],
                 !.pc[c] = "broadcast"]
        ELSE IF pick = None /\ cand \cap it.base = {}
        THEN IF it.disconnected = {}
             THEN E_Schedule(W, c)
             ELSE IF d \in DOMAIN W.editor_connections
             THEN E_Schedule([W EXCEPT !.editor_connections[d].members =
                                            @ \ it.disconnected], c)
             ELSE \* KeyError
                  E_Finally([W EXCEPT !.iter[c].status = "aborted"], c)
        ELSE [W EXCEPT !.ok = FALSE]

(* an edit handler without the comparison with last_content *)
handle_editor_edit_always(W, c, data, pick) ==
    LET d == W.docref[c]
        W0 == [W EXCEPT !.iter[c] =
                  [NoIter EXCEPT !.kind = "edit", !.inbound = data,
                                 !.message = [type |-> "edit", content |-> data.content],
                                 !.status = "running"],
                        \* lines 329-342: the row, if there is one, gets the content
                        !.db_content = IF d \in DOMAIN @
                                       THEN [@ EXCEPT ![d] = data.content]
                                       ELSE @,
                        !.superseded =
                            IF /\ c \in DOMAIN W.debounce_tasks
                               /\ W.ed_tasks[W.debounce_tasks[c]].state = "sleeping"
                               /\ W.now < W.ed_tasks[W.debounce_tasks[c]].due
                            THEN @ \cup {W.debounce_tasks[c]}
                            ELSE @]
    IN  IF d \notin DOMAIN W.editor_connections
        THEN E_Schedule(W0, c)
        ELSE E_BroadcastLoop(
                 [W0 EXCEPT !.iter[c].set = W.editor_connections[d].id,
                            !.iter[c].n0 = Cardinality(W.editor_connections[d].members),
                            !.iter[c].base = W.editor_connections[d].members],
                 c, pick)

(* handle_editor_edit *)
handle_editor_edit(W, c, data, pick) ==
    LET d == W.docref[c]
        W0 == [W EXCEPT !.iter[c] =
                  [NoIter EXCEPT !.kind = "edit", !.inbound = data,
                                 !.message = [type |-> "edit", content |-> data.content],
                                 !.status = "running"],
                        \* lines 329-342: the row, if there is one, gets the content
                        !.db_content = IF d \in DOMAIN @
                                       THEN [@ EXCEPT ![d] = data.content]
                                       ELSE @,
                        !.superseded =
                            IF /\ c \in DOMAIN W.debounce_tasks
                               /\ W.ed_tasks[W.debounce_tasks[c]].state = "sleeping"
                               /\ W.now < W.ed_tasks[W.debounce_tasks[c]].due
                            THEN @ \cup {W.debounce_tasks[c]}
                            ELSE @]
    IN  IF data.content = W.last_content[c]
        THEN W
        ELSE IF d \notin DOMAIN W.editor_connections
        THEN E_Schedule(W0, c)
        ELSE E_BroadcastLoop(
                 [W0 EXCEPT !.iter[c].set = W.editor_connections[d].id,
                            !.iter[c].n0 = Cardinality(W.editor_connections[d].members),
                            !.iter[c].base = W.editor_connections[d].members],
                 c, pick)

(* editor_websocket, the body of `while True`, lines 273-303 *)
E_HandleMessage(W, c, data, pick) ==
    IF data.type = "edit"
    THEN handle_editor_edit(W, c, data, pick)
    ELSE IF data.type = "ping"
    THEN IF W.alive[c] THEN Send(W, c, [type |-> "pong"]) ELSE E_Finally(W, c)
    ELSE IF data.type = "request_ai_analysis"
    THEN \* run_ai_analysis_for_ws up to `await ai_service.analyze_code`
         IF HasCode(W, c, data.content)
         THEN [W EXCEPT !.invocations =
                            Append(@, [task |-> 0, conn |-> c,
                                       code |-> CodeToAnalyse(W, c, data.content),
                                       outcome |-> "pending"]),
                        !.pc[c] = "analysis"]
         ELSE \* "Document not found"
              SA_Deliver(W, c, [type |-> "ai_error"])
    ELSE W

(* editor_websocket from the accept to the first receive, lines 236-273 *)
E_Connect(c, document_id) ==
    /\ entry = "editor"
    /\ pc[c] = "new"
    /\ \A x \in Conns : Earlier(x, c) => pc[x] # "new"
    /\ LET W1 == IF document_id \notin DOMAIN editor_connections
                 THEN [World EXCEPT !.editor_connections =
                                        Put(@, document_id,
                                            [id |-> next_ref, members |-> {}]),
                                    !.next_ref = @ + 1]
                 ELSE World
           W2 == [W1 EXCEPT !.editor_connections[document_id].members = @ \cup {c},
                            !.docref[c] = document_id,
                            !.last_content[c] = "",
                            !.found[c].connected = TRUE,
                            !.pc[c] = "loop"]
       IN  Commit(SA_Deliver(W2, c, [type |-> "connection"]))
    /\ UNCHANGED <<entry, harness, budget>>

E_Receive(c, data) ==
    /\ entry = "editor"
    /\ pc[c] = "loop"
    /\ alive[c]
    /\ budget.frames > 0
    /\ budget' = [budget EXCEPT !.frames = @ - 1]
    /\ \E pick \in Picks : Commit(E_HandleMessage(
                               [World EXCEPT !.inbox[c] = Append(@, data)], c, data, pick))
    /\ UNCHANGED <<entry, harness>>

E_BroadcastNext(c) ==
    /\ entry = "editor"
    /\ pc[c] = "broadcast"
    /\ \E pick \in Picks : Commit(E_BroadcastLoop(World, c, pick))
    /\ UNCHANGED <<entry, harness, budget>>

E_ReceiveClosed(c) ==
    /\ entry = "editor"
    /\ pc[c] = "loop"
    /\ ~alive[c]
    /\ Commit(E_Finally(World, c))
    /\ UNCHANGED <<entry, harness, budget>>

(* debounced_analysis: the sleep is over, lines 359-363 *)
T_Fire(t) ==
    /\ entry = "editor"
    /\ t \in DOMAIN ed_tasks
    /\ ed_tasks[t].state = "sleeping"
    /\ ed_tasks[t].due <= now
    /\ Commit(IF alive[ed_tasks[t].conn]
              THEN [Send(World, ed_tasks[t].conn, [type |-> "ai_status"]) EXCEPT
                       !.ed_tasks[t].state = "status"]
              ELSE [World EXCEPT !.ed_tasks[t].state = "done"])
    /\ UNCHANGED <<entry, harness, budget>>

(* run_ai_analysis_for_ws up to `await ai_service.analyze_code`, lines 375-394 *)
T_Analyze(t) ==
    /\ entry = "editor"
    /\ t \in DOMAIN ed_tasks
    /\ ed_tasks[t].state = "status"
    /\ Commit(IF HasCode(World, ed_tasks[t].conn, ed_tasks[t].content)
              THEN [World EXCEPT
                       !.invocations =
                           Append(@, [task |-> t, conn |-> ed_tasks[t].conn,
                                      code |-> CodeToAnalyse(World, ed_tasks[t].conn,
                                                             ed_tasks[t].content),
                                      outcome |-> "pending"]),
                       !.ed_tasks[t].state = "analyzing"]
              ELSE \* "Document not found"
                   [SA_Deliver(World, ed_tasks[t].conn, [type |-> "ai_error"]) EXCEPT
                       !.ed_tasks[t].state = "done"])
    /\ UNCHANGED <<entry, harness, budget>>

(* run_ai_analysis_for_ws after the analysis, lines 396-413: analyze_code  *)
(* has returned a result, or has raised; a notification that cannot be     *)
(* sent is given up                                                        *)
AnalysisOutcomes == { "returned", "raised" }

Notification(outcome) ==
    [type |-> IF outcome = "raised" THEN "ai_error" ELSE "ai_suggestion"]

Settle(invs, t, c, outcome) ==
    [i \in DOMAIN invs |->
        IF invs[i].task = t /\ invs[i].conn = c /\ invs[i].outcome = "pending"
        THEN [invs[i] EXCEPT !.outcome = outcome]
        ELSE invs[i]]

(* a task that keeps the failure of the analysis to itself *)
T_Result_silent(t, outcome) ==
    /\ entry = "editor"
    /\ t \in DOMAIN ed_tasks
    /\ ed_tasks[t].state = "analyzing"
    /\ Commit([(IF outcome = "raised" THEN World
                ELSE SA_Deliver(World, ed_tasks[t].conn, Notification(outcome))) EXCEPT
                  !.invocations = Settle(@, t, ed_tasks[t].conn, outcome),
                  !.ed_tasks[t].state = "done"])
    /\ UNCHANGED <<entry, harness, budget>>

T_Result(t, outcome) ==
    /\ entry = "editor"
    /\ t \in DOMAIN ed_tasks
    /\ ed_tasks[t].state = "analyzing"
    /\ Commit([SA_Deliver(World, ed_tasks[t].conn, Notification(outcome)) EXCEPT
                  !.invocations = Settle(@, t, ed_tasks[t].conn, outcome),
                  !.ed_tasks[t].state = "done"])
    /\ UNCHANGED <<entry, harness, budget>>

(* editor_websocket line 297 resumed: run_ai_analysis_for_ws after the     *)
(* analysis, then the next receive                                         *)
E_AnalysisReturns(c, outcome) ==
    /\ entry = "editor"
    /\ pc[c] = "analysis"
    /\ Commit([SA_Deliver(World, c, Notification(outcome)) EXCEPT
                  !.invocations = Settle(@, 0, c, outcome),
                  !.pc[c] = "loop"])
    /\ UNCHANGED <<entry, harness, budget>>

(* time passes while a task sleeps *)
E_Tick ==
    /\ entry = "editor"
    /\ \E t \in 1..Len(ed_tasks) : ed_tasks[t].state = "sleeping"
    /\ \A t \in 1..Len(ed_tasks) : ed_tasks[t].state = "sleeping" => ed_tasks[t].due > now
    /\ now < E_MaxTime
    /\ now' = now + E_TickMillis
    /\ UNCHANGED <<entry, harness, conn_vars, sa_vars, active_connections,
                   mgr_documents, heap, docobj, next_ref, tasks, fired, ed_vars>>

InitEd ==
    /\ entry = "editor"
    /\ harness = NoHarness
    /\ pc = [c \in Conns |-> IF c \in E_Conns THEN "new" ELSE "unused"]
    /\ sent = [c \in Conns |-> <<>>]
    /\ inbox = [c \in Conns |-> <<>>]
    /\ origin = [c \in Conns |-> <<>>]
    /\ alive = [c \in Conns |-> TRUE]
    /\ iter = [c \in Conns |-> NoIter]
    /\ removal = [c \in Conns |-> NoIter]
    /\ client_id = [c \in Conns |-> 0]
    /\ docref = [c \in Conns |-> None]
    /\ issued = <<>>
    /\ found = [c \in Conns |-> NotFound]
    /\ budget = [frames |-> E_MaxFrames, closes |-> E_MaxCloses]
    /\ IdleStandalone
    /\ IdleManager
    /\ IdleEditor

NextEd ==
    \/ \E c \in Conns, document_id \in DocIds : E_Connect(c, document_id)
    \/ \E c \in Conns, data \in EditorInbound : E_Receive(c, data)
    \/ \E c \in Conns : E_BroadcastNext(c)
    \/ \E c \in Conns : E_ReceiveClosed(c)
    \/ \E c \in Conns : Close(c)
    \/ \E t \in TaskIds : T_Fire(t)
    \/ \E t \in TaskIds : T_Analyze(t)
    \/ \E t \in TaskIds, outcome \in AnalysisOutcomes : T_Result(t, outcome)
    \/ E_Tick

SpecEd == InitEd /\ [][NextEd]_vars

(***************************************************************************)
(* C7: when an edit is followed, before its debounce delay has elapsed, by *)
(* an edit with different content from the same connection, the analysis   *)
(* service is not invoked for the earlier edit: the one invocation is      *)
(* given the content of the later edit.                                    *)
(***************************************************************************)
C7_SupersededEditIsNotAnalysed ==
    entry = "editor" =>
        \A i \in 1..Len(invocations) : invocations[i].task \notin superseded

(***************************************************************************)
(* C11: a member whose send failed during a broadcast is disconnected once *)
(* the pass has completed: it is no longer in the document's member set,   *)
(* so it is not a target of a later broadcast.                             *)
(***************************************************************************)
C11_FailedMemberLeavesTheSet ==
    \A a \in Conns :
        (/\ entry = "standalone"
         /\ iter[a].kind \in {"update", "awareness"}
         /\ iter[a].status = "done") =>
            \A b \in iter[a].seen \ iter[a].got :
                b \notin documents[docref[a]].clients

(***************************************************************************)
(* C12: the member set of a document is not mutated while a broadcast      *)
(* iterates it: a pass that is suspended on a send finds the set as it was *)
(* when the pass began, and no pass is ended by a change of the set.       *)
(***************************************************************************)
C12_SetUnchangedDuringBroadcast ==
    \A a \in Conns :
        (entry = "standalone" /\ iter[a].kind \in {"update", "awareness"}) =>
            /\ (pc[a] = "broadcast" /\ iter[a].status = "running") =>
                   documents[docref[a]].clients = iter[a].base
            /\ iter[a].status # "aborted"

(***************************************************************************)
(* The standalone server with two connections and two inbound frames: one  *)
(* connection can send an UPDATE and then a second one.                    *)
(***************************************************************************)
SA2_MaxFrames == 2   \* inbound frames in one run of the two-connection server
SA2_MaxCloses == 1   \* transports that close in one run of it

InitSA2 ==
    /\ entry = "standalone"
    /\ harness = NoHarness
    /\ pc = [c \in Conns |-> IF c = Order[3] THEN "unused" ELSE "new"]
    /\ sent = [c \in Conns |-> <<>>]
    /\ inbox = [c \in Conns |-> <<>>]
    /\ origin = [c \in Conns |-> <<>>]
    /\ alive = [c \in Conns |-> TRUE]
    /\ iter = [c \in Conns |-> NoIter]
    /\ removal = [c \in Conns |-> NoIter]
    /\ client_id = [c \in Conns |-> 0]
    /\ docref = [c \in Conns |-> None]
    /\ issued = <<>>
    /\ found = [c \in Conns |-> NotFound]
    /\ budget = [frames |-> SA2_MaxFrames, closes |-> SA2_MaxCloses]
    /\ IdleStandalone
    /\ IdleManager
    /\ IdleEditor

SpecSA2 == InitSA2 /\ [][NextSA]_vars

(* the SYNC/UPDATE frames with a payload that handler a received, in order *)
Accepted(a) ==
    SelectSeq(inbox[a], LAMBDA f : /\ Len(f) > 2
                                   /\ f[1] = MESSAGE_SYNC
                                   /\ f[2] = SYNC_UPDATE)

(* the frames b was sent by the broadcast_update passes of handler a, in order *)
RECURSIVE FramesFrom(_, _, _)
FramesFrom(b, a, k) ==
    IF k = 0 THEN <<>>
    ELSE IF origin[b][k].kind = "update" /\ origin[b][k].src = a
    THEN Append(FramesFrom(b, a, k - 1), sent[b][k])
    ELSE FramesFrom(b, a, k - 1)

UpdatesFrom(b, a) == FramesFrom(b, a, Len(sent[b]))

(* s can be had from t by leaving frames out *)
RECURSIVE IsSubsequence(_, _)
IsSubsequence(s, t) ==
    IF s = <<>> THEN TRUE
    ELSE IF t = <<>> THEN FALSE
    ELSE IF Head(s) = Head(t) THEN IsSubsequence(Tail(s), Tail(t))
    ELSE IsSubsequence(s, Tail(t))

(***************************************************************************)
(* C13: the SYNC/UPDATE frames a member is sent for the updates of one     *)
(* source connection come in the order in which the source sent them: if   *)
(* A sent u1 before u2 and B is sent both, B is sent u1 first.             *)
(***************************************************************************)
C13_UpdatesOfOneSourceInOrder ==
    entry = "standalone" =>
        \A a \in Conns : \A b \in Conns \ {a} :
            IsSubsequence(UpdatesFrom(b, a), Accepted(a))

C13_Witness ==
    /\ entry = "standalone"
    /\ \E a \in Conns : \E b \in Conns \ {a} :
         /\ Len(Accepted(a)) = 2
         /\ Accepted(a)[1] # Accepted(a)[2]
         /\ UpdatesFrom(b, a) = Accepted(a)

(***************************************************************************)
(* C14: get_document(key) makes one empty document for a key the registry  *)
(* does not hold and returns the registered object for a key it holds, so  *)
(* the handlers attached to one key all hold the same object, however      *)
(* their connects interleave.                                              *)
(***************************************************************************)
C14_GetDocumentIsIdempotent ==
    entry = "yjs" =>
        /\ \A c \in Conns :
               found[c].connected =>
                   /\ found[c].ref \in DOMAIN heap
                   /\ found[c].prior = 0 =>
                          /\ found[c].updates = <<>>
                          /\ found[c].awareness_states = <<>>
                   /\ found[c].prior # 0 => found[c].ref = found[c].prior
        /\ \A a \in Conns : \A b \in Conns :
               (/\ pc[a] \in {"loop", "broadcast"}
                /\ pc[b] \in {"loop", "broadcast"}
                /\ docref[a] = docref[b]) =>
                   /\ docobj[a] = docobj[b]
                   /\ mgr_documents[docref[a]] = docobj[a]

C14_Witness ==
    /\ entry = "yjs"
    /\ \E a \in Conns : \E b \in Conns \ {a} :
         /\ pc[a] = "loop"
         /\ pc[b] = "loop"
         /\ found[a].prior = 0
         /\ found[b].prior = docobj[a]
         /\ found[b].ref = docobj[a]
         /\ found[b].updates # <<>>

(***************************************************************************)
(* The standalone server whose setup_redis found a broker: self.redis is   *)
(* set, and every accepted UPDATE is published after the local broadcast.  *)
(* The broker may fail at any publish.                                     *)
(***************************************************************************)
SAR_MaxFrames == 2   \* inbound frames in one run of the server with a broker
SAR_MaxCloses == 1   \* transports that close in one run of it

InitSAR ==
    /\ entry = "standalone"
    /\ harness = NoHarness
    /\ pc = [c \in Conns |-> IF c = Order[3] THEN "unused" ELSE "new"]
    /\ sent = [c \in Conns |-> <<>>]
    /\ inbox = [c \in Conns |-> <<>>]
    /\ origin = [c \in Conns |-> <<>>]
    /\ alive = [c \in Conns |-> TRUE]
    /\ iter = [c \in Conns |-> NoIter]
    /\ removal = [c \in Conns |-> NoIter]
    /\ client_id = [c \in Conns |-> 0]
    /\ docref = [c \in Conns |-> None]
    /\ issued = <<>>
    /\ found = [c \in Conns |-> NotFound]
    /\ budget = [frames |-> SAR_MaxFrames, closes |-> SAR_MaxCloses]
    /\ documents = << >>
    /\ client_docs = << >>
    /\ client_ids = << >>
    /\ next_client_id = 1
    /\ redis = "connected"
    /\ broker = << >>
    /\ IdleManager
    /\ IdleEditor

NextSAR ==
    \/ NextSA
    \/ \E c \in Conns, outcome \in {"ok", "error"} : SA_PublishReturns(c, outcome)

SpecSAR == InitSAR /\ [][NextSAR]_vars

(***************************************************************************)
(* C15: a publish that fails is not raised to the caller: the update has   *)
(* been appended and sent to every other member, the handler of the        *)
(* sending connection goes on (the steps after the publish run and the     *)
(* connection is not torn down).                                           *)
(***************************************************************************)
C15_FailedPublishIsNotFatal ==
    \A a \in Conns :
        (/\ entry = "standalone"
         /\ iter[a].kind = "update"
         /\ iter[a].published = "error") =>
            /\ \E i \in 1..Len(documents[docref[a]].updates) :
                   UpdateFrame(documents[docref[a]].updates[i]) = iter[a].inbound
            /\ iter[a].status = "done"
            /\ alive[a] => pc[a] \notin {"removal", "ended"}

(***************************************************************************)
(* C16: an update published by one server process is received by the      *)
(* subscriber loop of every other process, which sends it to its own       *)
(* members of the document.                                                *)
(***************************************************************************)
C16_PublishedEventReachesOtherProcesses ==
    entry = "standalone" =>
        \A i \in 1..Len(broker) : OtherProcesses \subseteq broker[i].receivers

(***************************************************************************)
(* C17: there is at most one live debounce timer per (document,            *)
(* connection) key, the one the table holds for the key; an accepted edit  *)
(* replaces the timer of the edit before it, so that a timer whose edit    *)
(* has been followed by another one does not fire.                         *)
(***************************************************************************)
LiveTimer(t) == ed_tasks[t].state \in {"sleeping", "status", "analyzing"}

C17_OneLiveTimerPerKey ==
    entry = "editor" =>
        \A t \in DOMAIN ed_tasks :
            LiveTimer(t) =>
                /\ ed_tasks[t].conn \in DOMAIN debounce_tasks
                /\ debounce_tasks[ed_tasks[t].conn] = t

C17_OnlyLatestEditsTimerFires ==
    /\ C17_OneLiveTimerPerKey
    /\ entry = "editor" =>
           \A t \in superseded : ed_tasks[t].state \in {"sleeping", "cancelled"}

(* the payload of the last AWARENESS frame the handler received, in a      *)
(* one-element sequence; empty if it received none                         *)
LastAwareness(c) ==
    LET frames == SelectSeq(inbox[c], LAMBDA f : Len(f) >= 1 /\ f[1] = MESSAGE_AWARENESS)
    IN  IF frames = <<>> THEN <<>> ELSE << Tail(frames[Len(frames)]) >>

(* the awareness table of the document the handler is attached to *)
AwarenessTable(c) ==
    IF entry = "yjs" THEN heap[docobj[c]].awareness_states
    ELSE documents[docref[c]].awareness_states

(***************************************************************************)
(* C18: while a connection is attached, the awareness table of its         *)
(* document has an entry for its identity exactly if it has sent an        *)
(* AWARENESS message, and the entry is the latest payload it sent; once    *)
(* the connection has been removed the table has no entry for it.          *)
(***************************************************************************)
C18_AwarenessTableTracksSenders ==
    \A c \in Conns :
        /\ (entry \in {"standalone", "yjs"}
            /\ pc[c] \in {"step1", "step2", "states", "loop", "broadcast", "publish"}) =>
               /\ DictHas(AwarenessTable(c), client_id[c]) <=> LastAwareness(c) # <<>>
               /\ LastAwareness(c) # <<>> =>
                      AwarenessTable(c)[DictGet(AwarenessTable(c), client_id[c])].val
                          = LastAwareness(c)[1]
        /\ (entry = "standalone" /\ pc[c] \in {"removal", "ended"}) =>
               ~DictHas(AwarenessTable(c), client_id[c])

(***************************************************************************)
(* C19: a member is sent each appended blob at most once: no blob that is  *)
(* part of the SYNC/STEP2 state the member was sent on connect is also     *)
(* sent to it as a SYNC/UPDATE frame, and no blob is sent to it in two     *)
(* SYNC/UPDATE frames.                                                     *)
(***************************************************************************)
C19_BlobReachesMemberAtMostOnce ==
    entry = "standalone" =>
        \A b \in Conns : \A i \in 1..Len(origin[b]) : \A j \in 1..Len(origin[b]) :
            origin[b][i].kind = "update" =>
                /\ origin[b][j].kind = "step2" => origin[b][i].n > origin[b][j].n
                /\ (origin[b][j].kind = "update" /\ i # j) =>
                       origin[b][i].n # origin[b][j].n

(* p is the beginning of q *)
IsPrefix(p, q) == Len(p) <= Len(q) /\ SubSeq(q, 1, Len(p)) = p

(***************************************************************************)
(* C20: every inbound SYNC/STEP1 is answered: once the handler has dealt   *)
(* with a STEP1 from a client whose transport is open, the client has been *)
(* sent a SYNC/STEP2 frame in reply, carrying the encoded state of the     *)
(* document (the log only grows, so what was sent begins the state of      *)
(* now); this includes a document whose state is empty.                    *)
(***************************************************************************)
C20_Step1IsAnsweredWithStep2 ==
    \A c \in Conns :
        (/\ entry = "standalone"
         /\ pc[c] = "loop"
         /\ alive[c]
         /\ inbox[c] # <<>>
         /\ inbox[c][Len(inbox[c])] = Step1Frame) =>
            \E i \in 1..Len(sent[c]) :
                /\ origin[c][i] = [kind |-> "reply", src |-> c, n |-> Len(inbox[c])]
                /\ Len(sent[c][i]) >= 2
                /\ SubSeq(sent[c][i], 1, 2) = <<MESSAGE_SYNC, SYNC_STEP2>>
                /\ IsPrefix(Tail(Tail(sent[c][i])),
                            get_encoded_state(documents[docref[c]].updates))

(***************************************************************************)
(* What the handling of one inbound frame does is read off the step that   *)
(* receives it: the step appends the frame to the handler's inbox.         *)
(***************************************************************************)
Received(c) == inbox'[c] # inbox[c]

LastReceived(c) == inbox'[c][Len(inbox'[c])]

(* the update log, the awareness table and the member set of the document  *)
(* the handler is attached to                                              *)
DocLog(c) ==
    IF entry = "yjs" THEN heap[docobj[c]].updates
    ELSE documents[docref[c]].updates

DocMembers(c) ==
    IF entry = "yjs"
    THEN IF docref[c] \in DOMAIN active_connections
         THEN active_connections[docref[c]].members ELSE {}
    ELSE documents[docref[c]].clients

EndsWith(s, p) == Len(p) <= Len(s) /\ SubSeq(s, Len(s) - Len(p) + 1, Len(s)) = p

(***************************************************************************)
(* C21: the handling of an inbound SYNC/STEP2 with non-empty payload p     *)
(* appends p to the update log: p is then the last blob of the log and the *)
(* encoded state ends with p; a STEP2 with empty payload leaves the log    *)
(* as it was.                                                              *)
(***************************************************************************)
C21_Step2IsAppended ==
    [][\A c \in Conns :
          (/\ entry \in {"standalone", "yjs"}
           /\ Received(c)
           /\ Len(LastReceived(c)) >= 2
           /\ SubSeq(LastReceived(c), 1, 2) = <<MESSAGE_SYNC, SYNC_STEP2>>) =>
              LET p == Tail(Tail(LastReceived(c)))
              IN  IF p # <<>>
                  THEN /\ DocLog(c)' # <<>>
                       /\ DocLog(c)'[Len(DocLog(c)')] = p
                       /\ EndsWith(get_encoded_state(DocLog(c)'), p)
                  ELSE DocLog(c)' = DocLog(c)]_vars

(***************************************************************************)
(* C22: the handling of an inbound UPDATE with non-empty payload p first   *)
(* appends p to the log and then starts the broadcast of SYNC/UPDATE + p;  *)
(* the publish comes after the broadcast pass is over and the return to    *)
(* the receive (with the gc check) after the publish.  An UPDATE with      *)
(* empty payload appends nothing, sends nothing and publishes nothing.     *)
(***************************************************************************)
C22_UpdateStepsInOrder ==
    [][\A c \in Conns :
          /\ (/\ entry \in {"standalone", "yjs"}
              /\ Received(c)
              /\ Len(LastReceived(c)) >= 2
              /\ SubSeq(LastReceived(c), 1, 2) = <<MESSAGE_SYNC, SYNC_UPDATE>>) =>
                 LET p == Tail(Tail(LastReceived(c)))
                 IN  IF p # <<>>
                     THEN /\ DocLog(c)' = Append(DocLog(c), p)
                          /\ iter'[c].kind = "update"
                          /\ iter'[c].message = UpdateFrame(p)
                          /\ iter'[c].published = "no"
                          /\ broker' = broker
                     ELSE /\ DocLog(c)' = DocLog(c)
                          /\ sent' = sent
                          /\ broker' = broker
          /\ (entry = "standalone" /\ pc'[c] = "publish") => iter'[c].status = "done"
          /\ (entry = "standalone" /\ broker' # broker /\ pc[c] = "publish"
                                   /\ pc'[c] # "publish") => pc'[c] = "loop"]_vars

(***************************************************************************)
(* The /yjs endpoint on a document that already holds as many blobs as the *)
(* standalone server's ceiling: an earlier member sent them and has left   *)
(* at time 0, so the document has no member and its cleanup task sleeps.   *)
(***************************************************************************)
LongLog == [i \in 1..GC_CEILING |-> <<7>>]

InitYjsLong ==
    /\ entry = "yjs"
    /\ harness = NoHarness
    /\ pc = [c \in Conns |-> "new"]
    /\ sent = [c \in Conns |-> <<>>]
    /\ inbox = [c \in Conns |-> <<>>]
    /\ origin = [c \in Conns |-> <<>>]
    /\ alive = [c \in Conns |-> TRUE]
    /\ iter = [c \in Conns |-> NoIter]
    /\ removal = [c \in Conns |-> NoIter]
    /\ client_id = [c \in Conns |-> 0]
    /\ docref = [c \in Conns |-> None]
    /\ issued = <<>>
    /\ found = [c \in Conns |-> NotFound]
    /\ budget = [frames |-> Y_MaxFrames, closes |-> Y_MaxCloses]
    /\ IdleStandalone
    /\ active_connections = << >>
    /\ mgr_documents = Put(<< >>, "d1", 1)
    /\ heap = Put(<< >>, 1, [Y_NewDocument EXCEPT
                                !.updates = LongLog,
                                !.left = [updates |-> LongLog,
                                          awareness_states |-> <<>>]])
    /\ docobj = [c \in Conns |-> 0]
    /\ next_ref = 2
    /\ tasks = << [doc_id |-> "d1", due |-> CLEANUP_DELAY] >>
    /\ now = 0
    /\ fired = NoFire
    /\ IdleEditor

SpecYjsLong == InitYjsLong /\ [][NextYjs]_vars

(* the step in which the handling of an UPDATE by handler c completes *)
UpdateCompletes(c) ==
    /\ iter'[c].kind = "update"
    /\ iter'[c].status = "done"
    /\ pc'[c] = "loop"
    /\ \/ Received(c) /\ iter'[c] # iter[c]
       \/ pc[c] \in {"broadcast", "publish"}

(***************************************************************************)
(* C23: the log is garbage collected after every applied update once it    *)
(* holds more than 200 blobs, in every entry point: when the handling of   *)
(* an UPDATE completes the log holds at most 200 blobs, and if it was      *)
(* shortened it holds exactly 1.                                           *)
(***************************************************************************)
C23_LogWithinCeilingAfterUpdate ==
    [][\A c \in Conns :
          (entry \in {"standalone", "yjs"} /\ UpdateCompletes(c)) =>
              /\ Len(DocLog(c)') <= GC_CEILING
              /\ Len(DocLog(c)') < Len(DocLog(c)) => Len(DocLog(c)') = 1]_vars

(* the awareness table of the handler's document in the next state *)
HasAwareness(c, p) ==
    /\ DictHas(AwarenessTable(c)', client_id'[c])
    /\ AwarenessTable(c)'[DictGet(AwarenessTable(c)', client_id'[c])].val = p

(***************************************************************************)
(* C24: the handling of an inbound AWARENESS with payload p from A stores  *)
(* p in the awareness table under A's identity and starts a broadcast, to  *)
(* the members other than A, of the frame made of the type byte, A's       *)
(* identity as four bytes little-endian, and p; when the pass is over the  *)
(* event is handed to the bridge.                                          *)
(***************************************************************************)
C24_AwarenessStoredFramedAndRepublished ==
    [][\A a \in Conns :
          /\ (/\ entry \in {"standalone", "yjs"}
              /\ Received(a)
              /\ Len(LastReceived(a)) >= 1
              /\ LastReceived(a)[1] = MESSAGE_AWARENESS) =>
                 LET p == Tail(LastReceived(a))
                 IN  /\ HasAwareness(a, p)
                     /\ iter'[a].kind = "awareness"
                     /\ iter'[a].message = AwarenessFrame(client_id[a], p)
                     /\ a \notin iter'[a].seen
          /\ (/\ entry = "standalone"
              /\ redis # None
              /\ iter'[a].kind = "awareness"
              /\ iter[a].status = "running"
              /\ iter'[a].status = "done") => pc'[a] = "publish"]_vars

(***************************************************************************)
(* C25: an inbound QUERY_AWARENESS is answered to the requester with one   *)
(* AWARENESS frame for each entry of the awareness table, and changes      *)
(* nothing else: as long as the requester's transport is open the reply    *)
(* runs to its end, the requester stays a member, and a finished reply has *)
(* sent as many frames as the table had entries.                           *)
(***************************************************************************)
C25_QueryAwarenessIsAnswered ==
    \A c \in Conns :
        (/\ entry = "standalone"
         /\ inbox[c] # <<>>
         /\ inbox[c][Len(inbox[c])] = <<MESSAGE_QUERY_AWARENESS>>
         /\ alive[c]) =>
            /\ iter[c].kind = "states"
            /\ iter[c].status \in {"running", "done"}
            /\ c \in documents[docref[c]].clients
            /\ iter[c].status = "done" => Cardinality(iter[c].keys) = iter[c].n0

(***************************************************************************)
(* C26: a debounce timer that is inside the analysis call when a newer     *)
(* edit of its connection schedules the next timer is not interrupted: it  *)
(* is still inside the call after the step; and no two timers of one key   *)
(* are waiting for their delay at the same time.                           *)
(***************************************************************************)
C26_RunningAnalysisIsNotInterrupted ==
    [][entry = "editor" =>
          /\ \A t \in DOMAIN ed_tasks :
                 (ed_tasks[t].state = "analyzing" /\ Len(ed_tasks') > Len(ed_tasks)) =>
                     ed_tasks'[t].state = "analyzing"
          /\ \A t \in DOMAIN ed_tasks' : \A u \in DOMAIN ed_tasks' :
                 (/\ t # u
                  /\ ed_tasks'[t].conn = ed_tasks'[u].conn
                  /\ ed_tasks'[t].state = "sleeping") =>
                     ed_tasks'[u].state # "sleeping"]_vars

(* the analysis invocations started for connection c so far *)
InvocationsFor(c) ==
    Cardinality({ i \in 1..Len(invocations) : invocations[i].conn = c })

(***************************************************************************)
(* C27: once the disconnect cleanup of an editor connection has run, the   *)
(* connection is in no document's connection set, there is no timer entry  *)
(* under its key, none of its timers is live, and from then on no analysis *)
(* invocation is started for it.                                           *)
(***************************************************************************)
C27_DisconnectCancelsTheTimer ==
    [][entry = "editor" =>
          \A c \in E_Conns :
              pc'[c] = "ended" =>
                  /\ \A d \in DOMAIN editor_connections' :
                         c \notin editor_connections'[d].members
                  /\ c \notin DOMAIN debounce_tasks'
                  /\ \A t \in DOMAIN ed_tasks' :
                         ed_tasks'[t].conn = c => ~LiveTimer(t)'
                  /\ pc[c] = "ended" => InvocationsFor(c)' = InvocationsFor(c)]_vars

(* the cleanup has cancelled the only timer that was ever started *)
C27_Witness ==
    /\ entry = "editor"
    /\ Len(ed_tasks) = 1
    /\ ed_tasks[1].state = "cancelled"
    /\ pc[ed_tasks[1].conn] = "ended"
    /\ ed_tasks[1].conn \notin DOMAIN debounce_tasks

(***************************************************************************)
(* Both endpoints under malformed input: two connections, a frame alphabet *)
(* with every kind of malformed frame and one frame of each kind that      *)
(* changes the document.                                                   *)
(***************************************************************************)
M_MaxFrames == 2    \* inbound frames the endpoints receive in one run
M_MaxCloses == 1    \* transports that close in one run

(* 4 is a type byte no MESSAGE_* constant has, 3 a sub-type byte no SYNC_*  *)
(* constant has                                                            *)
MalformedFrames ==
    { << >>, <<MESSAGE_SYNC>>, <<4>>, <<MESSAGE_SYNC, 3>> }

M_InboundFrames ==
    MalformedFrames \cup { UpdateFrame(<<7>>), <<MESSAGE_AWARENESS, 5>> }

InitMalformed ==
    /\ entry \in {"standalone", "yjs"}
    /\ harness = NoHarness
    /\ pc = [c \in Conns |-> IF c \in {"c1", "c2"} THEN "new" ELSE "unused"]
    /\ sent = [c \in Conns |-> <<>>]
    /\ inbox = [c \in Conns |-> <<>>]
    /\ origin = [c \in Conns |-> <<>>]
    /\ alive = [c \in Conns |-> TRUE]
    /\ iter = [c \in Conns |-> NoIter]
    /\ removal = [c \in Conns |-> NoIter]
    /\ client_id = [c \in Conns |-> 0]
    /\ docref = [c \in Conns |-> None]
    /\ issued = <<>>
    /\ found = [c \in Conns |-> NotFound]
    /\ budget = [frames |-> M_MaxFrames, closes |-> M_MaxCloses]
    /\ IdleStandalone
    /\ IdleManager
    /\ IdleEditor

NextMalformed ==
    \/ \E c \in Conns, doc_id \in DocIds : SA_Connect(c, doc_id)
    \/ \E c \in Conns : SA_AfterStep1(c)
    \/ \E c \in Conns : SA_AfterStep2(c)
    \/ \E c \in Conns : SA_StatesNext(c)
    \/ \E c \in Conns, data \in M_InboundFrames : SA_Receive(c, data)
    \/ \E c \in Conns : SA_BroadcastNext(c)
    \/ \E c \in Conns : SA_ReceiveClosed(c)
    \/ \E c \in Conns : SA_RemovalNext(c)
    \/ \E c \in Conns, doc_id \in DocIds : Y_Connect(c, doc_id)
    \/ \E c \in Conns, data \in M_InboundFrames : Y_Receive(c, data)
    \/ \E c \in Conns : Y_BroadcastNext(c)
    \/ \E c \in Conns : Y_ReceiveClosed(c)
    \/ \E c \in Conns : Close(c)
    \/ Y_CleanupFire
    \/ Tick

SpecMalformed == InitMalformed /\ [][NextMalformed]_vars

(* a frame of zero length, a SYNC frame without a sub-type byte, a frame   *)
(* with an unknown type byte, or a SYNC frame with an unknown sub-type     *)
Malformed(data) ==
    IF Len(data) = 0 THEN TRUE
    ELSE IF data[1] = MESSAGE_SYNC
    THEN IF Len(data) = 1 THEN TRUE
         ELSE data[2] \notin {SYNC_STEP1, SYNC_STEP2, SYNC_UPDATE}
    ELSE data[1] \notin {MESSAGE_AWARENESS, MESSAGE_AUTH, MESSAGE_QUERY_AWARENESS}

(***************************************************************************)
(* C28: the handling of a malformed inbound frame leaves the handler in    *)
(* its receive loop with its transport as it was, sends nothing to any     *)
(* connection, and changes neither the update log, the awareness table nor *)
(* the member set of any document.                                         *)
(***************************************************************************)
C28_MalformedFrameIsDropped ==
    [][\A c \in Conns :
           (Received(c) /\ Malformed(LastReceived(c))) =>
               /\ pc'[c] = "loop"
               /\ alive' = alive
               /\ sent' = sent
               /\ documents' = documents
               /\ heap' = heap
               /\ mgr_documents' = mgr_documents
               /\ active_connections' = active_connections]_vars

(* a handler that dropped a malformed frame has then received an update    *)
(* and appended it to the log                                              *)
C28_Witness ==
    \E c \in Conns :
        /\ Len(inbox[c]) = 2
        /\ inbox[c][1] = <<MESSAGE_SYNC, 3>>
        /\ inbox[c][2] = UpdateFrame(<<7>>)
        /\ pc[c] # "ended"
        /\ DocLog(c) = << <<7>> >>

(***************************************************************************)
(* The /editor endpoint with on-demand analysis requests next to edits.    *)
(***************************************************************************)
OnDemandInbound == { EditMessage("a"), EditMessage("b"), AnalysisRequest("a") }

NextEdOnDemand ==
    \/ \E c \in Conns, document_id \in DocIds : E_Connect(c, document_id)
    \/ \E c \in Conns, data \in OnDemandInbound : E_Receive(c, data)
    \/ \E c \in Conns : E_BroadcastNext(c)
    \/ \E c \in Conns : E_ReceiveClosed(c)
    \/ \E c \in Conns, outcome \in AnalysisOutcomes : E_AnalysisReturns(c, outcome)
    \/ \E c \in Conns : Close(c)
    \/ \E t \in TaskIds : T_Fire(t)
    \/ \E t \in TaskIds : T_Analyze(t)
    \/ \E t \in TaskIds, outcome \in AnalysisOutcomes : T_Result(t, outcome)
    \/ E_Tick

SpecEdOnDemand == InitEd /\ [][NextEdOnDemand]_vars

(* the analysis call of invocation i raises in this step *)
Raises(i) ==
    /\ i \in DOMAIN invocations
    /\ invocations[i].outcome = "pending"
    /\ invocations'[i].outcome = "raised"

ClearingInbound == { EditMessage("a"), EditMessage("") }

InitEdClearing ==
    /\ entry = "editor"
    /\ harness = NoHarness
    /\ pc = [c \in Conns |-> IF c \in E_Conns THEN "new" ELSE "unused"]
    /\ sent = [c \in Conns |-> <<>>]
    /\ inbox = [c \in Conns |-> <<>>]
    /\ origin = [c \in Conns |-> <<>>]
    /\ alive = [c \in Conns |-> TRUE]
    /\ iter = [c \in Conns |-> NoIter]
    /\ removal = [c \in Conns |-> NoIter]
    /\ client_id = [c \in Conns |-> 0]
    /\ docref = [c \in Conns |-> None]
    /\ issued = <<>>
    /\ found = [c \in Conns |-> NotFound]
    /\ budget = [frames |-> E_MaxFrames, closes |-> E_MaxCloses]
    /\ IdleStandalone
    /\ IdleManager
    /\ editor_connections = << >>
    /\ last_content = [c \in Conns |-> ""]
    /\ debounce_tasks = << >>
    /\ ed_tasks = << >>
    /\ invocations = << >>
    /\ db_content \in { << >>, [d \in DocIds |-> ""] }
    /\ superseded = {}

NextEdClearing ==
    \/ \E c \in Conns, document_id \in DocIds : E_Connect(c, document_id)
    \/ \E c \in Conns, data \in ClearingInbound : E_Receive(c, data)
    \/ \E c \in Conns : E_BroadcastNext(c)
    \/ \E c \in Conns : E_ReceiveClosed(c)
    \/ \E c \in Conns : Close(c)
    \/ \E t \in TaskIds : T_Fire(t)
    \/ \E t \in TaskIds : T_Analyze(t)
    \/ \E t \in TaskIds, outcome \in AnalysisOutcomes : T_Result(t, outcome)
    \/ E_Tick

SpecEdClearing == InitEdClearing /\ [][NextEdClearing]_vars

AI_STATUS == [type |-> "ai_status"]

(***************************************************************************)
(* C30: a debounce timer that fires sends the status notification to its   *)
(* connection and to no other; once the status is sent, and unless it is   *)
(* cancelled, its next step is the one invocation of the analysis service, *)
(* with the content of the edit that started it; and when the analysis is  *)
(* over the result notification goes to its connection, after the status,  *)
(* and to no other.                                                        *)
(***************************************************************************)
C30_FiredTimerAnalysesItsEdit ==
    [][entry = "editor" =>
          \A t \in DOMAIN ed_tasks :
              LET b == ed_tasks[t].conn
                  before == ed_tasks[t].state
                  after == ed_tasks'[t].state
              IN  /\ (before = "sleeping" /\ after = "status") =>
                          /\ sent'[b] = Append(sent[b], AI_STATUS)
                          /\ \A x \in Conns \ {b} : sent'[x] = sent[x]
                  /\ (before = "status" /\ after \notin {"status", "cancelled"}) =>
                          /\ after = "analyzing"
                          /\ invocations' =
                                 Append(invocations,
                                        [task |-> t, conn |-> b,
                                         code |-> ed_tasks[t].content,
                                         outcome |-> "pending"])
                          /\ sent' = sent
                  /\ (before = "analyzing" /\ after = "done") =>
                          /\ \E k \in DOMAIN sent[b] : sent[b][k] = AI_STATUS
                          /\ alive[b] =>
                                 \E outcome \in AnalysisOutcomes :
                                     sent'[b] = Append(sent[b], Notification(outcome))
                          /\ \A x \in Conns \ {b} : sent'[x] = sent[x]
                          /\ invocations' # invocations
                  /\ Cardinality({ i \in DOMAIN invocations' :
                                       invocations'[i].task = t }) <= 1]_vars

(***************************************************************************)
(* The standalone server with the server's own steps fair: a handler that  *)
(* can go on does go on.  Clients are free never to connect, send or       *)
(* close.  The server has no timer.                                        *)
(***************************************************************************)
ServerStepSA(c) ==
    \/ SA_AfterStep1(c)
    \/ SA_AfterStep2(c)
    \/ SA_StatesNext(c)
    \/ SA_BroadcastNext(c)
    \/ SA_ReceiveClosed(c)
    \/ SA_RemovalNext(c)

SpecSAFair ==
    InitSA2 /\ [][NextSA]_vars /\ \A c \in Conns : WF_vars(ServerStepSA(c))

(* the document registered under key d, in either registry *)
InRegistry(d) ==
    IF entry = "yjs" THEN d \in DOMAIN mgr_documents ELSE d \in DOMAIN documents

RegisteredDocument(d) ==
    IF entry = "yjs" THEN heap[mgr_documents[d]] ELSE documents[d]

(* d is registered, is attached to no handler and has no member *)
Vacant(d) ==
    /\ InRegistry(d)
    /\ RegisteredDocument(d).clients = {}
    /\ \A c \in Conns : docref[c] = d => pc[c] = "ended"

(***************************************************************************)
(* C31: a document whose member set has become empty does not stay in the  *)
(* registry with an empty member set for ever: it is removed, or a member  *)
(* joins it; and a key that is not registered gives a new empty document   *)
(* on the next get_document.                                               *)
(***************************************************************************)
C31_VacantDocumentIsEvicted ==
    \A d \in DocIds : Vacant(d) ~> ~Vacant(d)

(***************************************************************************)
(* C32: no background task outlives its target: while a document key is    *)
(* not in the registry of the /yjs manager no eviction task for that key   *)
(* is pending, and once the handler of an editor connection has ended no   *)
(* debounce task of that connection is pending.                            *)
(***************************************************************************)
C32_NoTaskOutlivesItsTarget ==
    /\ entry = "yjs" =>
           \A i \in DOMAIN tasks : tasks[i].doc_id \in DOMAIN mgr_documents
    /\ entry = "editor" =>
           \A t \in DOMAIN ed_tasks :
               pc[ed_tasks[t].conn] = "ended" => ~LiveTimer(t)

(* no handler is inside a handshake, a broadcast pass or a cleanup *)
Quiet == \A a \in Conns : pc[a] \in {"unused", "new", "loop", "ended"}

(* blob k of the log of c's document has been sent to c: it was part of    *)
(* the SYNC/STEP2 state c was sent on connect, or c was sent the           *)
(* SYNC/UPDATE frame of the pass that followed its append                  *)
SentBlob(c, k) ==
    \E j \in 1..Len(origin[c]) :
        \/ origin[c][j].kind = "step2" /\ origin[c][j].n >= k
        \/ origin[c][j].kind = "update" /\ origin[c][j].n = k

(* the SYNC/UPDATE frames of c that appended a blob with bytes *)
OwnUpdates(c) ==
    SelectSeq(inbox[c], LAMBDA f : /\ Len(f) >= 2
                                   /\ f[1] = MESSAGE_SYNC
                                   /\ f[2] = SYNC_UPDATE
                                   /\ Len(f) > 2)

(* the blobs an UPDATE appended: the payload 9 is that of the STEP2        *)
(* frames; an empty blob has no bytes to send                              *)
UpdateBlobs(c) == { k \in 1..Len(DocLog(c)) : DocLog(c)[k] \notin { <<9>>, <<>> } }

(***************************************************************************)
(* C33: when no pass is under way, a member whose handler is at its        *)
(* receive and whose transport is open has been sent every blob that an    *)
(* UPDATE appended to the log of its document, except the blobs of its     *)
(* own updates.                                                            *)
(***************************************************************************)
C33_NoUpdateIsMissed ==
    \A c \in Conns :
        (/\ entry \in {"standalone", "yjs"}
         /\ Quiet
         /\ pc[c] = "loop"
         /\ alive[c]
         /\ c \in DocMembers(c)) =>
            Cardinality({ k \in UpdateBlobs(c) : ~SentBlob(c, k) })
                <= Len(OwnUpdates(c))

(***************************************************************************)
(* C34: in the standalone server every key of a document's awareness       *)
(* table is the identity of a connection that is in the document's client  *)
(* set, and no key is the fallback identity 0.                             *)
(***************************************************************************)
C34_AwarenessKeysAreMembers ==
    entry = "standalone" =>
        \A d \in DOMAIN documents :
            \A i \in 1..Len(documents[d].awareness_states) :
                LET id == documents[d].awareness_states[i].key
                IN  /\ id # 0
                    /\ \E c \in documents[d].clients :
                           c \in DOMAIN client_ids /\ client_ids[c] = id

(* a connection that had set its awareness has been cleaned up, and the    *)
(* table holds only the entry of the member that is left                   *)
C34_Witness ==
    \E a \in Conns : \E b \in Conns \ {a} :
        /\ entry = "standalone"
        /\ pc[a] = "ended"
        /\ LastAwareness(a) # <<>>
        /\ pc[b] = "loop"
        /\ docref[b] = docref[a]
        /\ LastAwareness(b) # <<>>
        /\ Len(documents[docref[b]].awareness_states) = 1
        /\ documents[docref[b]].awareness_states[1].key = client_id[b]

(***************************************************************************)
(* The standalone server with a document whose log is at the ceiling: an   *)
(* earlier client has sent GC_CEILING updates and has left.                *)
(***************************************************************************)
InitSALong ==
    /\ entry = "standalone"
    /\ harness = NoHarness
    /\ pc = [c \in Conns |-> IF c = Order[3] THEN "unused" ELSE "new"]
    /\ sent = [c \in Conns |-> <<>>]
    /\ inbox = [c \in Conns |-> <<>>]
    /\ origin = [c \in Conns |-> <<>>]
    /\ alive = [c \in Conns |-> TRUE]
    /\ iter = [c \in Conns |-> NoIter]
    /\ removal = [c \in Conns |-> NoIter]
    /\ client_id = [c \in Conns |-> 0]
    /\ docref = [c \in Conns |-> None]
    /\ issued = <<>>
    /\ found = [c \in Conns |-> NotFound]
    /\ budget = [frames |-> SA2_MaxFrames, closes |-> SA2_MaxCloses]
    /\ documents = [d \in DocIds |-> [NewDocument EXCEPT !.updates = LongLog]]
    /\ client_docs = << >>
    /\ client_ids = << >>
    /\ next_client_id = 2
    /\ redis = None
    /\ broker = << >>
    /\ IdleManager
    /\ IdleEditor

SpecSALong == InitSALong /\ [][NextSA]_vars

(***************************************************************************)
(* C35: in every state of the standalone server the log of a document has  *)
(* at most one blob more than the gc ceiling.                              *)
(***************************************************************************)
C35_LogNeverExceedsCeilingPlusOne ==
    entry = "standalone" =>
        \A d \in DOMAIN documents : Len(documents[d].updates) <= GC_CEILING + 1

(* a live session: the transport of c is open and its handler is between  *)
(* its connect step and its cleanup                                        *)
Y_Processing(c) == alive[c] /\ pc[c] \in {"loop", "broadcast"}

C37_EndedHandlerLeavesNothing ==
    \A c \in Conns :
        (entry = "standalone" /\ pc[c] = "ended") =>
            /\ c \notin documents[docref[c]].clients
            /\ c \notin DOMAIN client_docs
            /\ c \notin DOMAIN client_ids
            /\ ~DictHas(documents[docref[c]].awareness_states, client_id[c])

(* the edit messages the handler of c has received, in order *)
EditsOf(c) == SelectSeq(inbox[c], LAMBDA m : m.type = "edit")

(***************************************************************************)
(* C38: the handling of an edit message whose content is that of the       *)
(* previous edit message of the connection saves nothing, sends nothing to *)
(* any connection, leaves every debounce task as it was, with its due      *)
(* time, and leaves the handler at its receive.                            *)
(***************************************************************************)
C38_RepeatedEditIsNoOp ==
    [][\A c \in E_Conns :
           (/\ entry = "editor"
            /\ Received(c)
            /\ LastReceived(c).type = "edit"
            /\ EditsOf(c) # <<>>
            /\ EditsOf(c)[Len(EditsOf(c))].content = LastReceived(c).content) =>
               /\ db_content' = db_content
               /\ sent' = sent
               /\ ed_tasks' = ed_tasks
               /\ debounce_tasks' = debounce_tasks
               /\ invocations' = invocations
               /\ editor_connections' = editor_connections
               /\ pc'[c] = "loop"]_vars

(* the edit was repeated while its timer was pending, and the timer is     *)
(* still due at the time the first edit set                                *)
C38_Witness ==
    \E c \in E_Conns :
        /\ entry = "editor"
        /\ inbox[c] = << EditMessage("a"), EditMessage("a") >>
        /\ now = E_TickMillis
        /\ Len(ed_tasks) = 1
        /\ ed_tasks[1] = [conn |-> c, content |-> "a", due |-> DEBOUNCE_DELAY,
                          state |-> "sleeping"]
        /\ debounce_tasks[c] = 1

(* the handler of c is in, or has left, the pass over the awareness table  *)
(* that follows its handshake: it has processed no inbound frame           *)
JoinPass(c) ==
    /\ entry = "standalone"
    /\ inbox[c] = <<>>
    /\ iter[c].kind = "states"

(***************************************************************************)
(* C39: the pass over the awareness table that follows the handshake of a  *)
(* new client, whose transport is open, runs to its end whatever the other *)
(* clients do meanwhile: the new client stays a member of its document,    *)
(* and a finished pass has sent as many AWARENESS frames as the table had  *)
(* entries.                                                                *)
(***************************************************************************)
C39_JoinPassIsNotAborted ==
    \A c \in Conns :
        (JoinPass(c) /\ alive[c]) =>
            /\ iter[c].status \in {"running", "done"}
            /\ pc[c] \in {"states", "loop"}
            /\ c \in documents[docref[c]].clients
            /\ iter[c].status = "done" => Cardinality(iter[c].keys) = iter[c].n0
=============================================================================
